---- MODULE Spec2Model ----
(***************************************************************************)
(* A model of chungus_ops: the dependency cache builder (lib.rs) and the   *)
(* analysis graph (analysis.rs), with the path types of module.rs.         *)
(*                                                                         *)
(* Paths are sequences of components.  A Location is an absolute path      *)
(* (first component "/"), a RelativePath a path below the resolver root.   *)
(* Option<T> is a sequence: <<>> is None and <<x>> is Some(x).  Indices    *)
(* into all_nodes and analysis_groups are the program's (0-based); the     *)
(* element at index i is the (i+1)-th of the TLA+ sequence.                *)
(***************************************************************************)
EXTENDS Integers, Sequences, FiniteSets, TLC

VARIABLES
  cache,               \* DependencyCache: Location -> Module
  entry,               \* the entry Location handed to the operation
  all_nodes,           \* Analysis.all_nodes
  analysis_groups,     \* Analysis.analysis_groups
  node_map,            \* Analysis.node_map
  analysis_group_map,  \* Analysis.analysis_group_map
  chunks,              \* Analysis.chunks: ChunkId -> Chunk
  queue,               \* populate: the work queue (own_index of each entry)
  own_index,           \* populate: index of the node being processed
  todo,                \* populate: dependencies of the node still to process
  outgoing,            \* populate: the outgoing set being accumulated
  augment_calls,       \* augment_with_webpack_report calls that have returned
  augment_result,      \* how the last augment_with_webpack_report call ended
  augment_input,       \* the arguments of the last call that returned
  pc,                  \* position of the analysis operations
  fs,                  \* builder: the project on disk, Location -> source
  stack,               \* builder: call stack of recursively_build_dependency_tree
  result,              \* builder: what build_dependency_cache returned
  failed,              \* builder: a read or parse failed during this build
  parsed,              \* builder: Location -> times it was processed in this build
  first,               \* builder: outcome of the first build, once it is over
  resolution,          \* resolver: a resolve_asset call, its inputs and outcome
  parsing,             \* parser: a parse_many call, its input, position and output
  host,                \* host: the managed state, its lock and the command threads
  ingestion            \* report: a create_report_from_reader call, its input and outcome

vars == <<cache, entry, all_nodes, analysis_groups, node_map, analysis_group_map,
          chunks, queue, own_index, todo, outgoing, augment_calls,
          augment_result, augment_input, pc, fs, stack, result, failed, parsed,
          first, resolution, parsing, host, ingestion>>

analysisVars == <<all_nodes, analysis_groups, node_map, analysis_group_map,
                  chunks, queue, own_index, todo, outgoing, augment_calls,
                  augment_result, augment_input>>

builderVars == <<fs, stack, result, failed, parsed, first>>

otherVars == <<resolution, parsing, host, ingestion>>

\* ------------------------------------------------------------------ bounds

\* Dependencies (edges) in a whole dependency cache handed to create_from_cache.
MaxEdges == 3

\* Calls of augment_with_webpack_report on one Analysis.
MaxAugments == 2

\* Groups of an Analysis that is augmented again (every call may add clones).
MaxGroups == 5

\* Files a disk holds besides the referring file.
MaxFiles == 3

\* Statements of a source file handed to parse_many.
MaxStatements == 2

\* Nodes of an analysis the host holds.
MaxNodes == 2

\* Analyses the host creates.
MaxAnalyses == 2

\* Entries of the `dependencies` object of a package descriptor.
MaxDependencies == 2

\* Modules listed in a sub-report of a webpack report.
MaxModules == 2

\* ------------------------------------------------------------------ options

None == <<>>

Some(x) == <<x>>

IsSome(o) == o /= <<>>

Unwrap(o) == o[1]

\* ------------------------------------------------------------------ paths

\* The resolver root, /p.
ResolveRoot == <<"/", "p">>

\* Path::join of a relative path onto a base.
Join(base, rel) == base \o rel

\* PathBuf::pop: the parent, when there is one.
Pop(path) == SubSeq(path, 1, Len(path) - 1)

\* Path::canonicalize of an existing absolute path without symlinks: every
\* ".." component removes the component before it.
RECURSIVE Canonicalize(_)
Canonicalize(path) ==
  IF \E i \in 2..Len(path) : path[i] = ".."
  THEN LET i == CHOOSE k \in 2..Len(path) :
                  path[k] = ".." /\ \A j \in 2..(k - 1) : path[j] /= ".."
       IN  Canonicalize(SubSeq(path, 1, IF i = 2 THEN 1 ELSE i - 2)
                        \o SubSeq(path, i + 1, Len(path)))
  ELSE path

\* Length of the longest common prefix of two paths.
RECURSIVE CommonPrefix(_, _, _)
CommonPrefix(a, b, k) ==
  IF k < Len(a) /\ k < Len(b) /\ a[k + 1] = b[k + 1]
  THEN CommonPrefix(a, b, k + 1)
  ELSE k

\* Location::make_relative_to (pathdiff::diff_paths on two absolute paths):
\* one ".." for every component of the base after the common prefix, then
\* the rest of the path.
MakeRelativeTo(location, base) ==
  LET k == CommonPrefix(location, base, 0)
  IN  [i \in 1..(Len(base) - k) |-> ".."] \o SubSeq(location, k + 1, Len(location))

\* GroupPaths: the iterator pops the current path until it has no parent and
\* yields what is left after each pop, the empty path last.
GroupPaths(rel) == [i \in 1..Len(rel) |-> SubSeq(rel, 1, Len(rel) - i)]

\* The last path component, as components().rev().take(1) collects it.
Stem(path) == IF Len(path) = 0 THEN <<>> ELSE <<path[Len(path)]>>

\* ------------------------------------------------------------------ modules

ModuleAsset(loc) == [tag |-> "Module", target |-> loc, package_directory |-> None]

FileAsset(loc) == [tag |-> "Asset", target |-> loc, package_directory |-> None]

Unresolved(raw) == [tag |-> "Unresolved", target |-> raw, package_directory |-> None]

NodePackage(dir, file) ==
  [tag |-> "NodePackage", target |-> file, package_directory |-> Some(dir)]

\* Asset::location / Dependency::location.
AssetLocation(asset) ==
  IF asset.tag = "Unresolved" THEN None ELSE Some(asset.target)

\* A Dependency: an asset with the import flavour that introduced it.
Dep(flavor, asset) == [flavor |-> flavor, asset |-> asset]

\* DependencyLocations finding no location.
DependencyLocationsNone(deps) == <<>>

\* filter_map(|dep| dep.location()) over a dependency list.
RECURSIVE DependencyLocations(_)
DependencyLocations(deps) ==
  IF deps = <<>> THEN <<>>
  ELSE LET l == AssetLocation(deps[1].asset)
       IN  (IF IsSome(l) THEN <<Unwrap(l)>> ELSE <<>>)
           \o DependencyLocations(Tail(deps))

\* ------------------------------------------------------------------ maps

EmptyMap == [k \in {} |-> 0]

\* HashMap::insert.
MapInsert(m, k, v) == [x \in (DOMAIN m) \cup {k} |-> IF x = k THEN v ELSE m[x]]

\* The elements of a Vec.
Range(vec) == {vec[k] : k \in 1..Len(vec)}

\* The (0-based) indices of a Vec.
Indices(vec) == 0..(Len(vec) - 1)

\* The element of a Vec at a (0-based) index.
At(vec, i) == vec[i + 1]

\* vec[i] = value for a (0-based) index.
SetAt(vec, i, value) == [vec EXCEPT ![i + 1] = value]

\* ------------------------------------------------------------------ analysis

\* The identifier string: a path followed by the "?c=<id>" suffixes appended.
Identifier(path) == [base |-> path, suffix |-> <<>>]

\* The entry node built by create_from_cache.
RootNode(entrypoint) ==
  [identifier |-> Identifier(entrypoint),
   stem |-> None,
   full_path |-> entrypoint,
   is_node_module |-> FALSE,
   depth |-> Len(entrypoint),
   inclusions |-> <<>>,
   immediate_children |-> <<>>,
   tree_shaken |-> FALSE,
   chunk |-> None,
   resolver_relative_path |-> MakeRelativeTo(entrypoint, ResolveRoot),
   incoming |-> {},
   outgoing |-> {}]

\* A group node for the directory `location` (a RelativePath), created for the
\* file node `member`; `index` is the position of the directory among the
\* member's group paths (0: its parent directory).
GroupNode(location, index, member, chunk, incoming) ==
  LET full_path == Canonicalize(Join(ResolveRoot, location))
  IN  [identifier |-> Identifier(full_path),
       stem |-> None,
       full_path |-> full_path,
       is_node_module |-> FALSE,
       depth |-> Len(full_path),
       inclusions |-> <<member>>,
       immediate_children |-> IF index = 0 THEN <<member>> ELSE <<>>,
       tree_shaken |-> FALSE,
       chunk |-> chunk,
       resolver_relative_path |-> location,
       incoming |-> incoming,
       outgoing |-> {}]

\* create_from_cache, the loop building the entry's groups: one group for each
\* group path, recorded in the map under (path, chunk of the entry).
RECURSIVE InitialGroups(_, _, _, _)
InitialGroups(paths, index, groups, hashmap) ==
  IF index >= Len(paths) THEN [groups |-> groups, map |-> hashmap]
  ELSE LET location == paths[index + 1]
           pushed   == Append(groups, GroupNode(location, index, 0, None, {}))
       IN  InitialGroups(paths, index + 1, pushed,
                         MapInsert(hashmap, <<location, None>>, Len(pushed) - 1))

\* A file node discovered by populate.
NewAnalysisNode(dependency, is_node_module, own) ==
  [identifier |-> Identifier(dependency),
   stem |-> Stem(dependency),
   full_path |-> dependency,
   is_node_module |-> is_node_module,
   depth |-> Len(dependency),
   inclusions |-> <<>>,
   immediate_children |-> <<>>,
   tree_shaken |-> FALSE,
   chunk |-> None,
   resolver_relative_path |-> MakeRelativeTo(dependency, ResolveRoot),
   incoming |-> {own},
   outgoing |-> {}]

\* JoinExistingGroup without the test for the parent directory.
JoinExistingGroupAlways(group, index, new_index) ==
  [group EXCEPT
     !.inclusions = Append(@, new_index),
     !.immediate_children = Append(@, new_index)]

\* populate, new node, one group path: the group found under (path, chunk)
\* gets the new node's index in its inclusions (and its immediate children
\* when it is the parent directory).
JoinExistingGroup(group, index, new_index) ==
  [group EXCEPT
     !.inclusions = Append(@, new_index),
     !.immediate_children = IF index = 0 THEN Append(@, new_index) ELSE @]

\* populate, new node: the loop over the new node's group paths.
RECURSIVE AttachNewNode(_, _, _, _, _, _, _)
AttachNewNode(paths, index, groups, hashmap, new_node, new_index, own) ==
  IF index >= Len(paths) THEN [groups |-> groups, map |-> hashmap]
  ELSE LET relative_path == paths[index + 1]
           key == <<relative_path, new_node.chunk>>
       IN  IF key \in DOMAIN hashmap
           THEN AttachNewNode(paths, index + 1,
                  SetAt(groups, hashmap[key],
                        JoinExistingGroup(At(groups, hashmap[key]), index, new_index)),
                  hashmap, new_node, new_index, own)
           ELSE LET pushed == Append(groups,
                       GroupNode(relative_path, index, new_index, None, {own}))
                IN  AttachNewNode(paths, index + 1, pushed,
                      MapInsert(hashmap, <<relative_path, new_node.chunk>>,
                                Len(pushed) - 1),
                      new_node, new_index, own)

\* AttachSelf without the insert.
AttachSelfDropped(target_node, own) == target_node

\* populate, existing node: the processed node's index joins the target's
\* incoming set.
AttachSelf(target_node, own) == [target_node EXCEPT !.incoming = @ \cup {own}]

\* LookupNode that never finds the entry node.
LookupNodeSkipsEntry(map, nodes, dependency) ==
  IF dependency \in DOMAIN map /\ map[dependency] < Len(nodes) /\ map[dependency] /= 0
  THEN Some(map[dependency])
  ELSE None

\* populate: the dependency's index in node_map and its node in all_nodes,
\* when it has both.
LookupNode(map, nodes, dependency) ==
  IF dependency \in DOMAIN map /\ map[dependency] < Len(nodes)
  THEN Some(map[dependency])
  ELSE None

\* Whether every group path of a node has a group under (path, node.chunk):
\* the lookups populate unwraps.
GroupsExist(node, hashmap) ==
  \A i \in 1..Len(GroupPaths(node.resolver_relative_path)) :
     <<GroupPaths(node.resolver_relative_path)[i], node.chunk>> \in DOMAIN hashmap

\* populate, existing node: own_index joins the incoming set of every group
\* of the target node.
RECURSIVE AttachIncoming(_, _, _, _, _, _)
AttachIncoming(paths, i, groups, hashmap, chunk, own) ==
  IF i > Len(paths) THEN groups
  ELSE LET index == hashmap[<<paths[i], chunk>>]
       IN  AttachIncoming(paths, i + 1,
             SetAt(groups, index,
                   [At(groups, index) EXCEPT !.incoming = @ \cup {own}]),
             hashmap, chunk, own)

\* AttachOutgoing reaching the parent directory's group only.
AttachOutgoingParentOnly(paths, i, groups, hashmap, chunk, out) ==
  IF i > Len(paths) THEN groups
  ELSE LET index == hashmap[<<paths[i], chunk>>]
       IN  SetAt(groups, index, [At(groups, index) EXCEPT !.outgoing = @ \cup out])

\* populate, after the dependencies: the outgoing set joins the outgoing set
\* of every group of the processed node.
RECURSIVE AttachOutgoing(_, _, _, _, _, _)
AttachOutgoing(paths, i, groups, hashmap, chunk, out) ==
  IF i > Len(paths) THEN groups
  ELSE LET index == hashmap[<<paths[i], chunk>>]
       IN  AttachOutgoing(paths, i + 1,
             SetAt(groups, index,
                   [At(groups, index) EXCEPT !.outgoing = @ \cup out]),
             hashmap, chunk, out)

\* ------------------------------------------------------------------ actions

\* create_from_cache up to the call of populate: the entry node, its groups,
\* the two maps, and populate's queue holding the entry.
CreateFromCache ==
  /\ pc = "start"
  /\ LET root_node == RootNode(entry)
         initial   == InitialGroups(GroupPaths(root_node.resolver_relative_path),
                                    0, <<>>, EmptyMap)
     IN  /\ all_nodes' = <<root_node>>
         /\ analysis_groups' = initial.groups
         /\ analysis_group_map' = initial.map
         /\ node_map' = MapInsert(EmptyMap, entry, 0)
  /\ queue' = <<0>>
  /\ pc' = "populate"
  /\ UNCHANGED <<cache, entry, chunks, own_index, todo, outgoing, augment_calls,
                 augment_result, augment_input>>
  /\ UNCHANGED <<builderVars, otherVars>>

\* PopMissing failing on the missing module instead of skipping it.
PopMissingFails ==
  /\ pc = "populate"
  /\ queue /= <<>>
  /\ At(all_nodes, queue[Len(queue)]).full_path \notin DOMAIN cache
  /\ pc' = "panic"
  /\ UNCHANGED <<cache, entry, all_nodes, analysis_groups, node_map,
                 analysis_group_map, chunks, queue, own_index, todo, outgoing,
                 augment_calls, augment_result, augment_input>>
  /\ UNCHANGED <<builderVars, otherVars>>

\* populate: the queue's last entry is popped; its module is not in the cache,
\* so it is skipped.
PopMissing ==
  /\ pc = "populate"
  /\ queue /= <<>>
  /\ At(all_nodes, queue[Len(queue)]).full_path \notin DOMAIN cache
  /\ queue' = Pop(queue)
  /\ UNCHANGED <<cache, entry, all_nodes, analysis_groups, node_map,
                 analysis_group_map, chunks, own_index, todo, outgoing,
                 augment_calls, augment_result, augment_input, pc>>
  /\ UNCHANGED <<builderVars, otherVars>>

\* populate: the queue's last entry is popped and its module's dependencies
\* with a location are collected.
PopModule ==
  /\ pc = "populate"
  /\ queue /= <<>>
  /\ At(all_nodes, queue[Len(queue)]).full_path \in DOMAIN cache
  /\ queue' = Pop(queue)
  /\ own_index' = queue[Len(queue)]
  /\ todo' = DependencyLocations(
               cache[At(all_nodes, queue[Len(queue)]).full_path].dependencies)
  /\ outgoing' = {}
  /\ pc' = "dependencies"
  /\ UNCHANGED <<cache, entry, all_nodes, analysis_groups, node_map,
                 analysis_group_map, chunks, augment_calls, augment_result,
                 augment_input>>
  /\ UNCHANGED <<builderVars, otherVars>>

\* populate: the next dependency is a node of the tree already.
ExistingNode ==
  /\ pc = "dependencies"
  /\ todo /= <<>>
  /\ IsSome(LookupNode(node_map, all_nodes, todo[1]))
  /\ LET index  == Unwrap(LookupNode(node_map, all_nodes, todo[1]))
         target == AttachSelf(At(all_nodes, index), own_index)
     IN  IF GroupsExist(target, analysis_group_map)
         THEN /\ all_nodes' = SetAt(all_nodes, index, target)
              /\ analysis_groups' =
                   AttachIncoming(GroupPaths(target.resolver_relative_path), 1,
                                  analysis_groups, analysis_group_map,
                                  target.chunk, own_index)
              /\ outgoing' = outgoing \cup {index}
              /\ todo' = Tail(todo)
              /\ pc' = pc
         ELSE /\ pc' = "panic"
              /\ UNCHANGED <<all_nodes, analysis_groups, outgoing, todo>>
  /\ UNCHANGED <<cache, entry, node_map, analysis_group_map, chunks, queue,
                 own_index, augment_calls, augment_result, augment_input>>
  /\ UNCHANGED <<builderVars, otherVars>>

\* populate: the next dependency is new; a node is made for it, joined to its
\* groups, appended, mapped and queued.
NewNode ==
  /\ pc = "dependencies"
  /\ todo /= <<>>
  /\ ~IsSome(LookupNode(node_map, all_nodes, todo[1]))
  /\ LET dependency == todo[1]
         is_node_module == IF dependency \in DOMAIN cache
                           THEN cache[dependency].kind = "NodeModule"
                           ELSE FALSE
         new_node == NewAnalysisNode(dependency, is_node_module, own_index)
         attached == AttachNewNode(GroupPaths(new_node.resolver_relative_path), 0,
                                   analysis_groups, analysis_group_map,
                                   new_node, Len(all_nodes), own_index)
     IN  /\ analysis_groups' = attached.groups
         /\ analysis_group_map' = attached.map
         /\ all_nodes' = Append(all_nodes, new_node)
         /\ node_map' = MapInsert(node_map, dependency, Len(all_nodes))
         /\ queue' = Append(queue, Len(all_nodes))
         /\ outgoing' = outgoing \cup {Len(all_nodes)}
  /\ todo' = Tail(todo)
  /\ UNCHANGED <<cache, entry, chunks, own_index, augment_calls, augment_result, augment_input, pc>>
  /\ UNCHANGED <<builderVars, otherVars>>

\* populate: the dependencies are done; the outgoing set and the stem are
\* written to the node and the outgoing set joins its groups'.
FinishNode ==
  /\ pc = "dependencies"
  /\ todo = <<>>
  /\ LET next == [At(all_nodes, own_index) EXCEPT
                    !.outgoing = outgoing,
                    !.stem = Stem(At(all_nodes, own_index).full_path)]
     IN  IF GroupsExist(next, analysis_group_map)
         THEN /\ all_nodes' = SetAt(all_nodes, own_index, next)
              /\ analysis_groups' =
                   AttachOutgoing(GroupPaths(next.resolver_relative_path), 1,
                                  analysis_groups, analysis_group_map,
                                  next.chunk, outgoing)
              /\ pc' = "populate"
         ELSE /\ all_nodes' = SetAt(all_nodes, own_index, next)
              /\ pc' = "panic"
              /\ UNCHANGED analysis_groups
  /\ UNCHANGED <<cache, entry, node_map, analysis_group_map, chunks, queue,
                 own_index, todo, outgoing, augment_calls, augment_result,
                 augment_input>>
  /\ UNCHANGED <<builderVars, otherVars>>

\* populate returns with its queue empty, and create_from_cache returns the
\* Analysis.
Created ==
  /\ pc = "populate"
  /\ queue = <<>>
  /\ pc' = "ready"
  /\ UNCHANGED <<cache, entry>>
  /\ UNCHANGED analysisVars
  /\ UNCHANGED <<builderVars, otherVars>>

\* ------------------------------------------------------------------ augmentation

\* A webpack Chunk (the fields augmentation reads).
Chunk(id, children, siblings) == [id |-> id, children |-> children, siblings |-> siblings]

\* The entry's chunk list in the report and the chunk at the preferred index:
\* the two unwraps at the head of augment_with_webpack_report.
EntrypointChunk(report, entrypoint, preference) ==
  IF entrypoint.full_path \notin DOMAIN report.chunk_mapping THEN None
  ELSE IF preference >= Len(report.chunk_mapping[entrypoint.full_path]) THEN None
  ELSE Some(At(report.chunk_mapping[entrypoint.full_path], preference))

\* entrypoint_chunk_children: the chunk's children and siblings and its own id.
EntrypointChunkChildren(chunk) ==
  Range(chunk.children) \cup Range(chunk.siblings) \cup {chunk.id}

\* FindChunk taking the head of the list, relevant or not.
FindChunkAny(chunk_list, relevant) ==
  IF chunk_list = <<>> THEN None ELSE Some(chunk_list[1])

\* Iterator::find over a chunk list: the first chunk whose id is relevant.
RECURSIVE FindChunk(_, _)
FindChunk(chunk_list, relevant) ==
  IF chunk_list = <<>> THEN None
  ELSE IF chunk_list[1].id \in relevant THEN Some(chunk_list[1])
  ELSE FindChunk(Tail(chunk_list), relevant)

\* AugmentNode without the test for a chunk already assigned.
AugmentNodeResuffix(node, report, relevant) ==
  IF node.full_path \notin DOMAIN report.chunk_mapping
  THEN [node EXCEPT !.tree_shaken = TRUE]
  ELSE LET chunk == FindChunk(report.chunk_mapping[node.full_path], relevant)
       IN  IF ~IsSome(chunk) THEN [node EXCEPT !.tree_shaken = TRUE]
           ELSE [node EXCEPT
                   !.chunk = Some(Unwrap(chunk).id),
                   !.identifier.suffix = Append(@, Unwrap(chunk).id)]

\* AugmentNode leaving a node without a relevant chunk as it is.
AugmentNodeNoShake(node, report, relevant) ==
  IF IsSome(node.chunk) THEN node
  ELSE IF node.full_path \notin DOMAIN report.chunk_mapping
  THEN [node EXCEPT !.tree_shaken = TRUE]
  ELSE LET chunk == FindChunk(report.chunk_mapping[node.full_path], relevant)
       IN  IF ~IsSome(chunk) THEN node
           ELSE [node EXCEPT
                   !.chunk = Some(Unwrap(chunk).id),
                   !.identifier.suffix = Append(@, Unwrap(chunk).id)]

\* The body of the loop over a group's inclusions, for one file node: a node
\* with a chunk is left alone; a node absent from the report, or with no
\* relevant chunk, is marked tree-shaken; otherwise it gets the first relevant
\* chunk and "?c=<id>" is appended to its identifier.
AugmentNode(node, report, relevant) ==
  IF IsSome(node.chunk) THEN node
  ELSE IF node.full_path \notin DOMAIN report.chunk_mapping
  THEN [node EXCEPT !.tree_shaken = TRUE]
  ELSE LET chunk == FindChunk(report.chunk_mapping[node.full_path], relevant)
       IN  IF ~IsSome(chunk) THEN [node EXCEPT !.tree_shaken = TRUE]
           ELSE [node EXCEPT
                   !.chunk = Some(Unwrap(chunk).id),
                   !.identifier.suffix = Append(@, Unwrap(chunk).id)]

\* The loop over one group's inclusions: the nodes as augmented and the
\* identified_chunks set.
RECURSIVE AugmentInclusions(_, _, _, _, _, _)
AugmentInclusions(inclusions, i, nodes, identified, report, relevant) ==
  IF i > Len(inclusions) THEN [nodes |-> nodes, identified |-> identified]
  ELSE LET node == AugmentNode(At(nodes, inclusions[i]), report, relevant)
       IN  AugmentInclusions(inclusions, i + 1, SetAt(nodes, inclusions[i], node),
             IF IsSome(node.chunk) THEN identified \cup {Unwrap(node.chunk)}
             ELSE identified,
             report, relevant)

\* The orders in which a HashSet may hand out its elements.
IterationOrders(set) ==
  {order \in [1..Cardinality(set) -> set] :
     \A a \in 1..Cardinality(set) : \A b \in 1..Cardinality(set) :
        order[a] = order[b] => a = b}

\* GroupClones making clones that do not share the inclusions.
GroupClonesEmptied(group, order) ==
  [k \in 1..(Len(order) - 1) |->
     [group EXCEPT !.chunk = Some(order[k + 1]), !.inclusions = <<>>]]

\* The clones of a group for the chunks after the first of the iteration.
GroupClones(group, order) ==
  [k \in 1..(Len(order) - 1) |-> [group EXCEPT !.chunk = Some(order[k + 1])]]

\* The loop over analysis_groups and the extend that follows it: every way
\* it may end, the iteration order of each identified_chunks set being free.
RECURSIVE AugmentGroups(_, _, _, _, _, _)
AugmentGroups(k, nodes, groups, extra_nodes, report, relevant) ==
  IF k > Len(groups)
  THEN {[all_nodes |-> nodes, analysis_groups |-> groups \o extra_nodes]}
  ELSE LET visited == AugmentInclusions(groups[k].inclusions, 1, nodes, {},
                                        report, relevant)
       IN  UNION { LET group == [groups[k] EXCEPT
                                   !.chunk = IF order = <<>> THEN None
                                             ELSE Some(order[1])]
                   IN  AugmentGroups(k + 1, visited.nodes,
                                     [groups EXCEPT ![k] = group],
                                     extra_nodes \o GroupClones(group, order),
                                     report, relevant) :
                   order \in IterationOrders(visited.identified) }

\* self.chunks: the relevant chunks the report knows.
RelevantChunks(report, relevant) ==
  [id \in {c \in relevant : c \in DOMAIN report.chunk_id_map} |->
     report.chunk_id_map[id]]

\* ------------------------------------------------------------------ inputs

\* The project's files: the layout a/b/c.js, a/b/d.js, a/e.js below the root,
\* and an image beside e.js.
FileC == Join(ResolveRoot, <<"a", "b", "c.js">>)

FileD == Join(ResolveRoot, <<"a", "b", "d.js">>)

FileE == Join(ResolveRoot, <<"a", "e.js">>)

FileImage == Join(ResolveRoot, <<"a", "logo.png">>)

SourceFiles == <<FileC, FileD, FileE>>

\* What a dependency of a cached module may be.
DependencyChoices ==
  {Dep("Import", ModuleAsset(SourceFiles[i])) : i \in 1..Len(SourceFiles)}
    \cup {Dep("Require", FileAsset(FileImage)),
          Dep("AsyncImport", Unresolved(<<"missing">>))}

NormalModule(location, dependencies) ==
  [location |-> location, kind |-> "NormalModule", dependencies |-> dependencies]

\* The dependency caches over the source files from the i-th on, with at most
\* `budget` dependencies in all: each file is absent or a module.
RECURSIVE CachesFrom(_, _)
CachesFrom(i, budget) ==
  IF i > Len(SourceFiles) THEN {EmptyMap}
  ELSE CachesFrom(i + 1, budget)
       \cup UNION { UNION { { MapInsert(rest, SourceFiles[i],
                                         NormalModule(SourceFiles[i], deps)) :
                                 rest \in CachesFrom(i + 1, budget - n) } :
                             deps \in [1..n -> DependencyChoices] } :
                    n \in 0..budget }

AnalysisIdle ==
  /\ all_nodes = <<>>
  /\ analysis_groups = <<>>
  /\ node_map = EmptyMap
  /\ analysis_group_map = EmptyMap
  /\ chunks = EmptyMap
  /\ queue = <<>>
  /\ own_index = 0
  /\ todo = <<>>
  /\ outgoing = {}
  /\ augment_calls = 0
  /\ augment_result = "none"
  /\ augment_input = None

\* No resolve_asset call, no parse_many call and no host command is modelled.
OthersIdle ==
  /\ resolution = [state |-> "idle"]
  /\ parsing = [state |-> "idle"]
  /\ host = [state |-> "idle"]
  /\ ingestion = [state |-> "idle"]

BuilderIdle ==
  /\ fs = [sources |-> EmptyMap, packages |-> EmptyMap, unreadable |-> {}]
  /\ stack = <<>>
  /\ result = "none"
  /\ failed = FALSE
  /\ parsed = EmptyMap
  /\ first = None

\* create_from_cache is about to be called on a dependency cache and an entry.
Init ==
  /\ cache \in CachesFrom(1, MaxEdges)
  /\ entry \in {SourceFiles[i] : i \in 1..Len(SourceFiles)}
  /\ pc = "start"
  /\ AnalysisIdle
  /\ BuilderIdle
  /\ OthersIdle

Next ==
  \/ CreateFromCache
  \/ PopMissing
  \/ PopModule
  \/ ExistingNode
  \/ NewNode
  \/ FinishNode
  \/ Created

Spec == Init /\ [][Next]_vars

\* create_from_cache runs on its thread until it returns.
SpecFair == Spec /\ WF_vars(Next)

\* ------------------------------------------------------------------ augmenting

\* The report's chunks: chunk 1 has the child 2; chunk 3 belongs to another
\* entry point of the bundle and has the sibling 2.
ChunkTable ==
  <<Chunk(1, <<2>>, <<>>), Chunk(2, <<>>, <<>>), Chunk(3, <<>>, <<2>>)>>

\* The chunk lists a module of the report may carry.
ChunkLists ==
  {<<ChunkTable[1]>>, <<ChunkTable[3], ChunkTable[2]>>, <<ChunkTable[2], ChunkTable[1]>>}

\* The reports for an analysis of `entrypoint`: every source file is absent
\* from chunk_mapping or carries one of the chunk lists, the entry one that
\* does not start with the other entry point's chunk.
Reports(entrypoint) ==
  {[chunk_mapping |-> mapping, chunk_id_map |-> ChunkTable] :
     mapping \in {m \in UNION {[present -> ChunkLists] :
                                 present \in SUBSET Range(SourceFiles)} :
                    entrypoint \in DOMAIN m => m[entrypoint][1].id /= 3}}

\* The values of entrypoint_chunk_preference.
Preferences == {0, 1}

\* The caches holding the entry's module alone, with one import fewer than
\* there are source files (of itself, and of the same file twice, included).
\* Augmentation reads the file nodes and the groups' inclusions, and these
\* caches yield every order in which the source files can be discovered.
EntryOnlyCaches(entrypoint) ==
  UNION {{MapInsert(EmptyMap, entrypoint,
                    NormalModule(entrypoint,
                                 [k \in 1..n |-> Dep("Import", ModuleAsset(targets[k]))])) :
            targets \in [1..n -> Range(SourceFiles)]} :
         n \in 0..(Len(SourceFiles) - 1)}

\* augment_with_webpack_report returns: the entry has a chunk at the preferred
\* index; every group's inclusions are visited, the groups get their chunks,
\* the clones are appended and the chunk table is filled.
Augment ==
  /\ pc = "ready"
  /\ augment_calls < MaxAugments
  /\ Len(analysis_groups) <= MaxGroups
  /\ \E report \in Reports(entry) : \E preference \in Preferences :
        LET chunk == EntrypointChunk(report, At(all_nodes, 0), preference)
        IN  /\ IsSome(chunk)
            /\ \E out \in AugmentGroups(1, all_nodes, analysis_groups, <<>>, report,
                                        EntrypointChunkChildren(Unwrap(chunk))) :
                  /\ all_nodes' = out.all_nodes
                  /\ analysis_groups' = out.analysis_groups
            /\ chunks' = RelevantChunks(report, EntrypointChunkChildren(Unwrap(chunk)))
            /\ augment_input' = Some([webpack_report |-> report,
                                      entrypoint_chunk_preference |-> preference])
  /\ augment_calls' = augment_calls + 1
  /\ augment_result' = "returned"
  /\ UNCHANGED <<cache, entry, node_map, analysis_group_map, queue, own_index,
                 todo, outgoing, pc>>
  /\ UNCHANGED <<builderVars, otherVars>>

\* augment_with_webpack_report panicking after the loop over the groups has
\* marked the entry as tree-shaken.
AugmentPanicsLate ==
  /\ pc = "ready"
  /\ ~(\A report \in Reports(entry) : \A preference \in Preferences :
          IsSome(EntrypointChunk(report, At(all_nodes, 0), preference)))
  /\ augment_result' = "panicked"
  /\ all_nodes' = SetAt(all_nodes, 0, [At(all_nodes, 0) EXCEPT !.tree_shaken = TRUE])
  /\ UNCHANGED <<cache, entry, analysis_groups, node_map,
                 analysis_group_map, chunks, queue, own_index, todo, outgoing,
                 augment_calls, augment_input, pc>>
  /\ UNCHANGED <<builderVars, otherVars>>

\* augment_with_webpack_report panics on one of its first two unwraps: the
\* entry is not in the report, or has no chunk at the preferred index.
AugmentPanics ==
  /\ pc = "ready"
  /\ ~(\A report \in Reports(entry) : \A preference \in Preferences :
          IsSome(EntrypointChunk(report, At(all_nodes, 0), preference)))
  /\ augment_result' = "panicked"
  /\ UNCHANGED <<cache, entry, all_nodes, analysis_groups, node_map,
                 analysis_group_map, chunks, queue, own_index, todo, outgoing,
                 augment_calls, augment_input, pc>>
  /\ UNCHANGED <<builderVars, otherVars>>

\* create_from_cache is about to be called; augmentations follow it.
InitAugment ==
  /\ entry \in Range(SourceFiles)
  /\ cache \in EntryOnlyCaches(entry)
  /\ pc = "start"
  /\ AnalysisIdle
  /\ BuilderIdle
  /\ OthersIdle

NextAugment ==
  \/ CreateFromCache
  \/ PopMissing
  \/ PopModule
  \/ ExistingNode
  \/ NewNode
  \/ FinishNode
  \/ Created
  \/ Augment
  \/ AugmentPanics

SpecAugment == InitAugment /\ [][NextAugment]_vars

\* ------------------------------------------------------------------ builder

\* A package descriptor and the main file it names.
PackageJson == Join(ResolveRoot, <<"node_modules", "m", "package.json">>)

PackageMain == Join(ResolveRoot, <<"node_modules", "m", "index.js">>)

\* A file of the package imported by its own path.
PackageFile == Join(ResolveRoot, <<"node_modules", "m", "lib.js">>)

\* A reading that answers from the cache for a file that is a cache key.
ProcessJavascriptFileStale(disk, file_location) ==
  IF file_location \in disk.unreadable THEN None
  ELSE Some(NormalModule(file_location,
                         IF file_location \in DOMAIN cache THEN <<>>
                         ELSE disk.sources[file_location]))

\* process_javascript_file: the file is read and parsed and its imports are
\* resolved; None stands for Err.
ProcessJavascriptFile(disk, file_location) ==
  IF file_location \in disk.unreadable THEN None
  ELSE Some(NormalModule(file_location, disk.sources[file_location]))

\* process_package_json: the descriptor is read and its main file located;
\* without recursively_resolve_node_modules the module has no dependencies.
ProcessPackageJson(disk, package_json_location) ==
  IF package_json_location \in disk.unreadable THEN None
  ELSE Some([location |-> disk.packages[package_json_location].main,
             kind |-> "NodeModule",
             dependencies |-> <<>>])

\* One more call of process_javascript_file or process_package_json on the
\* location.
Counted(counts, location) ==
  MapInsert(counts, location,
            IF location \in DOMAIN counts THEN counts[location] + 1 ELSE 1)

\* A call of recursively_build_dependency_tree: its module and the (1-based)
\* position of the dependency its loop is at.
Frame(module, index) == [module |-> module, index |-> index]

\* The running call and the dependency it is at.
TopFrame == stack[Len(stack)]

AtDependency == TopFrame.index <= Len(TopFrame.module.dependencies)

Dependency == TopFrame.module.dependencies[TopFrame.index]

\* A loop that stays at the dependency it is at.
AdvancedStalled == stack

\* The stack with the running call moved on to its next dependency.
Advanced == [stack EXCEPT ![Len(stack)].index = @ + 1]

\* What a call that returns Err leaves behind: its caller drops the result
\* and goes on.
ReturnErr(frames) == Pop(frames)

\* build_dependency_cache: the entry is processed and cached, and
\* recursively_build_dependency_tree is called on its module.
BuildEntry ==
  /\ pc = "build"
  /\ result = "none"
  /\ IsSome(ProcessJavascriptFile(fs, entry))
  /\ cache' = MapInsert(cache, entry, Unwrap(ProcessJavascriptFile(fs, entry)))
  /\ stack' = <<Frame(Unwrap(ProcessJavascriptFile(fs, entry)), 1)>>
  /\ result' = "running"
  /\ parsed' = Counted(parsed, entry)
  /\ UNCHANGED <<entry, pc, fs, failed, first>>
  /\ UNCHANGED <<analysisVars, otherVars>>

\* build_dependency_cache: processing the entry fails and the error is
\* returned.
BuildEntryFails ==
  /\ pc = "build"
  /\ result = "none"
  /\ ~IsSome(ProcessJavascriptFile(fs, entry))
  /\ result' = "Err"
  /\ failed' = TRUE
  /\ parsed' = Counted(parsed, entry)
  /\ UNCHANGED <<cache, entry, pc, fs, stack, first>>
  /\ UNCHANGED <<analysisVars, otherVars>>

\* The dependency has no location, or its location is a cache key, or it is
\* an asset or unresolved: the loop goes on.
BuildSkip ==
  /\ result = "running"
  /\ AtDependency
  /\ \/ ~IsSome(AssetLocation(Dependency.asset))
     \/ /\ IsSome(AssetLocation(Dependency.asset))
        /\ Unwrap(AssetLocation(Dependency.asset)) \in DOMAIN cache
     \/ Dependency.asset.tag \in {"Asset", "Unresolved"}
  /\ stack' = Advanced
  /\ UNCHANGED <<cache, entry, pc, fs, result, failed, parsed, first>>
  /\ UNCHANGED <<analysisVars, otherVars>>

\* Asset::Module: the file is processed, cached under its path, and the
\* function calls itself on the module.
BuildModule ==
  /\ result = "running"
  /\ AtDependency
  /\ Dependency.asset.tag = "Module"
  /\ Dependency.asset.target \notin DOMAIN cache
  /\ LET next_module == ProcessJavascriptFile(fs, Dependency.asset.target)
     IN  /\ IsSome(next_module)
         /\ cache' = MapInsert(cache, Dependency.asset.target, Unwrap(next_module))
         /\ stack' = Append(Advanced, Frame(Unwrap(next_module), 1))
  /\ parsed' = Counted(parsed, Dependency.asset.target)
  /\ UNCHANGED <<entry, pc, fs, result, failed, first>>
  /\ UNCHANGED <<analysisVars, otherVars>>

\* BuildPackage caching the module under the target file alone.
BuildPackageTargetOnly ==
  /\ result = "running"
  /\ AtDependency
  /\ Dependency.asset.tag = "NodePackage"
  /\ Dependency.asset.target \notin DOMAIN cache
  /\ LET module == ProcessPackageJson(fs, Unwrap(Dependency.asset.package_directory))
     IN  /\ IsSome(module)
         /\ cache' = MapInsert(cache, Dependency.asset.target, Unwrap(module))
         /\ stack' = Append(Advanced, Frame(Unwrap(module), 1))
  /\ parsed' = Counted(parsed, Unwrap(Dependency.asset.package_directory))
  /\ UNCHANGED <<entry, pc, fs, result, failed, first>>
  /\ UNCHANGED <<analysisVars, otherVars>>

\* Asset::NodePackage: the descriptor is processed, the module cached under
\* the package directory (when it differs) and under the target file, and the
\* function calls itself on the module.
BuildPackage ==
  /\ result = "running"
  /\ AtDependency
  /\ Dependency.asset.tag = "NodePackage"
  /\ Dependency.asset.target \notin DOMAIN cache
  /\ LET package_directory == Unwrap(Dependency.asset.package_directory)
         target_file == Dependency.asset.target
         module == ProcessPackageJson(fs, package_directory)
     IN  /\ IsSome(module)
         /\ cache' = MapInsert(IF target_file /= package_directory
                               THEN MapInsert(cache, package_directory, Unwrap(module))
                               ELSE cache,
                               target_file, Unwrap(module))
         /\ stack' = Append(Advanced, Frame(Unwrap(module), 1))
  /\ parsed' = Counted(parsed, Unwrap(Dependency.asset.package_directory))
  /\ UNCHANGED <<entry, pc, fs, result, failed, first>>
  /\ UNCHANGED <<analysisVars, otherVars>>

\* Processing the dependency's file or descriptor fails: the `?` returns Err
\* from the running call.  build_dependency_cache passes on the Err of the
\* call it made; a call made by the function itself has its result dropped.
BuildFails ==
  /\ result = "running"
  /\ AtDependency
  /\ Dependency.asset.target \notin DOMAIN cache
  /\ \/ /\ Dependency.asset.tag = "Module"
        /\ ~IsSome(ProcessJavascriptFile(fs, Dependency.asset.target))
     \/ /\ Dependency.asset.tag = "NodePackage"
        /\ ~IsSome(ProcessPackageJson(fs, Unwrap(Dependency.asset.package_directory)))
  /\ stack' = ReturnErr(stack)
  /\ result' = IF ReturnErr(stack) = <<>> THEN "Err" ELSE result
  /\ failed' = TRUE
  /\ parsed' = Counted(parsed, IF Dependency.asset.tag = "Module"
                                THEN Dependency.asset.target
                                ELSE Unwrap(Dependency.asset.package_directory))
  /\ UNCHANGED <<cache, entry, pc, fs, first>>
  /\ UNCHANGED <<analysisVars, otherVars>>

\* The loop of the running call is over and it returns Ok; when it is the
\* call build_dependency_cache made, that returns Ok.
BuildReturn ==
  /\ result = "running"
  /\ ~AtDependency
  /\ stack' = Pop(stack)
  /\ result' = IF Pop(stack) = <<>> THEN "Ok" ELSE result
  /\ UNCHANGED <<cache, entry, pc, fs, failed, parsed, first>>
  /\ UNCHANGED <<analysisVars, otherVars>>

\* The host calls build_dependency_cache once more with the same resolver and
\* entry on the same disk, on the cache it kept or on an empty one.
Rebuild ==
  /\ pc = "build"
  /\ result \in {"Ok", "Err"}
  /\ first = None
  /\ first' = Some([cache |-> cache, result |-> result])
  /\ cache' \in {cache, EmptyMap}
  /\ stack' = <<>>
  /\ result' = "none"
  /\ failed' = FALSE
  /\ parsed' = EmptyMap
  /\ UNCHANGED <<entry, pc, fs>>
  /\ UNCHANGED <<analysisVars, otherVars>>

\* What an import of a source file may resolve to.
BuildChoices ==
  {Dep("Import", ModuleAsset(SourceFiles[i])) : i \in 1..Len(SourceFiles)}
    \cup {Dep("Require", FileAsset(FileImage)),
          Dep("AsyncImport", Unresolved(<<"missing">>)),
          Dep("Import", NodePackage(PackageJson, PackageMain)),
          Dep("Import", NodePackage(PackageJson, PackageFile))}

\* The resolved imports of the source files from the i-th on, with at most
\* `budget` imports in all.
RECURSIVE SourcesFrom(_, _)
SourcesFrom(i, budget) ==
  IF i > Len(SourceFiles) THEN {EmptyMap}
  ELSE UNION { UNION { { MapInsert(rest, SourceFiles[i], deps) :
                           rest \in SourcesFrom(i + 1, budget - n) } :
                       deps \in [1..n -> BuildChoices] } :
               n \in 0..budget }

\* The projects on disk: the source files with their imports, the package,
\* and at most one file or descriptor that cannot be read or parsed.
Disks ==
  {[sources |-> sources,
    packages |-> MapInsert(EmptyMap, PackageJson, [main |-> PackageMain]),
    unreadable |-> unreadable] :
     sources \in SourcesFrom(1, MaxEdges),
     unreadable \in {{}} \cup {{l} : l \in Range(SourceFiles) \cup {PackageJson}}}

\* build_dependency_cache is about to be called on an empty cache.  The
\* builder treats Locations as opaque keys, so one entry stands for all.
InitBuild ==
  /\ fs \in Disks
  /\ entry = FileC
  /\ cache = EmptyMap
  /\ pc = "build"
  /\ stack = <<>>
  /\ result = "none"
  /\ failed = FALSE
  /\ parsed = EmptyMap
  /\ first = None
  /\ AnalysisIdle
  /\ OthersIdle

NextBuild ==
  \/ BuildEntry
  \/ BuildEntryFails
  \/ BuildSkip
  \/ BuildModule
  \/ BuildPackage
  \/ BuildFails
  \/ BuildReturn
  \/ Rebuild

SpecBuild == InitBuild /\ [][NextBuild]_vars

\* The builder is sequential code: a call that can take a step takes it.
SpecBuildFair == SpecBuild /\ WF_vars(NextBuild)

\* ------------------------------------------------------------------ rebuild

\* The host keeps the cache of DependencyAnalysis from one
\* create_entrypoint_analysis to the next; between two calls the user edits
\* a source file and may pick another entry.

\* The imports of a source file after an edit.
EditedImports ==
  UNION {[1..n -> BuildChoices] : n \in 0..1}

\* build_dependency_cache has returned Ok; a source file is edited and the
\* host calls build_dependency_cache again on the cache it kept.
RebuildChanged ==
  /\ pc = "build"
  /\ result = "Ok"
  /\ first = None
  /\ \E file \in Range(SourceFiles) : \E imports \in EditedImports :
        /\ imports /= fs.sources[file]
        /\ fs' = [fs EXCEPT !.sources[file] = imports]
        /\ first' = Some([cache |-> cache, result |-> result, changed |-> file])
  /\ entry' \in Range(SourceFiles)
  /\ cache' = cache
  /\ stack' = <<>>
  /\ result' = "none"
  /\ failed' = FALSE
  /\ parsed' = EmptyMap
  /\ UNCHANGED pc
  /\ UNCHANGED <<analysisVars, otherVars>>

\* The first call is made on an empty cache, on a project whose files can
\* all be read.
InitRebuild ==
  /\ fs \in {[sources |-> sources,
              packages |-> MapInsert(EmptyMap, PackageJson, [main |-> PackageMain]),
              unreadable |-> {}] : sources \in SourcesFrom(1, MaxDependencies)}
  /\ entry = FileC
  /\ cache = EmptyMap
  /\ pc = "build"
  /\ stack = <<>>
  /\ result = "none"
  /\ failed = FALSE
  /\ parsed = EmptyMap
  /\ first = None
  /\ AnalysisIdle
  /\ OthersIdle

NextRebuild ==
  \/ BuildEntry
  \/ BuildSkip
  \/ BuildModule
  \/ BuildPackage
  \/ BuildReturn
  \/ RebuildChanged

SpecRebuild == InitRebuild /\ [][NextRebuild]_vars

\* ------------------------------------------------------------------ resolver

\* A file name made of a stem and an extension.
Compose(stem, extension) == stem \o "." \o extension

\* The stems and extensions of the file names that occur.
KnownStems == {"x", "index", "main", "package", "c"}

KnownExtensions == {"js", "ts", "css", "json"}

\* Path::file_stem and Path::extension of a file name: <<stem, extension>>,
\* the extension empty when the name has none.
SplitName(name) ==
  IF \E st \in KnownStems : \E ex \in KnownExtensions : Compose(st, ex) = name
  THEN CHOOSE pair \in KnownStems \X KnownExtensions : Compose(pair[1], pair[2]) = name
  ELSE <<name, "">>

PathExtension(path) == SplitName(path[Len(path)])[2]

\* Path::with_extension: the extension of the last component is replaced.
WithExtension(path, extension) ==
  Join(Pop(path), <<Compose(SplitName(path[Len(path)])[1], extension)>>)

\* The directories of a disk are the proper prefixes of its files.
Directories(disk) ==
  UNION {{SubSeq(f, 1, k) : k \in 1..(Len(f) - 1)} : f \in disk.files}

IsFile(disk, path) == Canonicalize(path) \in disk.files

IsDir(disk, path) == Canonicalize(path) \in Directories(disk)

Exists(disk, path) == IsFile(disk, path) \/ IsDir(disk, path)

\* Location::new: the canonical path of something that exists.
LocationNew(disk, path) ==
  IF Exists(disk, path) THEN Some(Canonicalize(path)) ELSE None

\* Path::ancestors: the path itself, then each parent up to the root.
PathAncestors(path) == [i \in 1..Len(path) |-> SubSeq(path, 1, Len(path) - i + 1)]

\* find_closest_package_json: the package.json of the nearest ancestor that
\* has one.
RECURSIVE FirstPackageJson(_, _)
FirstPackageJson(disk, ancestors) ==
  IF ancestors = <<>> THEN None
  ELSE IF IsSome(LocationNew(disk, Join(Head(ancestors), <<"package.json">>)))
       THEN LocationNew(disk, Join(Head(ancestors), <<"package.json">>))
       ELSE FirstPackageJson(disk, Tail(ancestors))

FindClosestPackageJson(disk, path) == FirstPackageJson(disk, PathAncestors(path))

\* process_package_json as resolve_directory uses it: invalid JSON panics in
\* the unwrap; otherwise the location of the main file, None when the file
\* does not exist (the Err is turned into None by ok()).
MainLocation(disk, package_json) ==
  IF ~disk.descriptors[package_json].valid
  THEN [panicked |-> TRUE, location |-> None]
  ELSE [panicked |-> FALSE,
        location |-> LocationNew(disk, Join(Pop(package_json),
                                            <<disk.descriptors[package_json].main>>))]

SearchSpace(kind, path) == [kind |-> kind, path |-> path]

\* A search space that tries the resolve root before the referrer's directory.
CreateSearchSpaceRootFirst(disk, resolver, location, target_path) ==
  IF target_path[1] = "/"
  THEN <<SearchSpace("RelativePath", target_path)>>
  ELSE <<SearchSpace("RelativePath", Join(resolver.resolve_root, target_path))>>
       \o <<SearchSpace("RelativePath",
                        Join(IF IsFile(disk, location) THEN Pop(location) ELSE location,
                             target_path))>>
       \o [i \in 1..Len(resolver.included_directories) |->
             SearchSpace("IncludedPath",
                         Join(Join(resolver.resolve_root, resolver.included_directories[i]),
                              target_path))]
       \o [i \in 1..(Len(location) - 1) |->
             SearchSpace("NodeModule",
                         Join(Join(PathAncestors(location)[i + 1], <<"node_modules">>),
                              target_path))]

\* create_search_space: the candidates, in order.
CreateSearchSpace(disk, resolver, location, target_path) ==
  IF target_path[1] = "/"
  THEN <<SearchSpace("RelativePath", target_path)>>
  ELSE <<SearchSpace("RelativePath",
                     Join(IF IsFile(disk, location) THEN Pop(location) ELSE location,
                          target_path))>>
       \o <<SearchSpace("RelativePath", Join(resolver.resolve_root, target_path))>>
       \o [i \in 1..Len(resolver.included_directories) |->
             SearchSpace("IncludedPath",
                         Join(Join(resolver.resolve_root, resolver.included_directories[i]),
                              target_path))]
       \o [i \in 1..(Len(location) - 1) |->
             SearchSpace("NodeModule",
                         Join(Join(PathAncestors(location)[i + 1], <<"node_modules">>),
                              target_path))]

\* The loop of resolve_file over the extensions, in the order the HashSet
\* yields them.
RECURSIVE ResolveWithExtensions(_, _, _)
ResolveWithExtensions(disk, search_space, extensions) ==
  IF extensions = <<>> THEN None
  ELSE LET file == WithExtension(search_space.path, Head(extensions))
       IN  IF Exists(disk, file)
              /\ (search_space.kind = "NodeModule"
                    => IsSome(FindClosestPackageJson(disk, search_space.path)))
           THEN IF search_space.kind = "NodeModule"
                THEN Some(NodePackage(Unwrap(FindClosestPackageJson(disk, search_space.path)),
                                      Canonicalize(file)))
                ELSE Some(ModuleAsset(Canonicalize(file)))
           ELSE ResolveWithExtensions(disk, search_space, Tail(extensions))

\* resolve_file.
ResolveFile(disk, resolver, search_space) ==
  IF IsFile(disk, search_space.path)
     /\ PathExtension(search_space.path) \notin Range(resolver.extensions)
  THEN Some(FileAsset(Canonicalize(search_space.path)))
  ELSE ResolveWithExtensions(disk, search_space, resolver.extensions)

\* The first index.<extension> of a directory, in the order the HashSet
\* yields the extensions.
RECURSIVE IndexFile(_, _, _)
IndexFile(disk, directory, extensions) ==
  IF extensions = <<>> THEN None
  ELSE IF Exists(disk, Join(directory, <<Compose("index", Head(extensions))>>))
       THEN Some(Canonicalize(Join(directory, <<Compose("index", Head(extensions))>>)))
       ELSE IndexFile(disk, directory, Tail(extensions))

\* resolve_directory: whether it panicked, and the asset it returned.
ResolveDirectory(disk, resolver, search_space) ==
  IF ~IsDir(disk, search_space.path)
  THEN [panicked |-> FALSE, asset |-> None]
  ELSE IF search_space.kind = "NodeModule"
  THEN LET package_json_file == FindClosestPackageJson(disk, search_space.path)
       IN  IF ~IsSome(package_json_file)
           THEN [panicked |-> FALSE, asset |-> None]
           ELSE LET location == Canonicalize(search_space.path)
                    main_location == MainLocation(disk, Unwrap(package_json_file))
                    file_in_directory ==
                      IF search_space.path /= Pop(Unwrap(package_json_file))
                      THEN IndexFile(disk, search_space.path, resolver.extensions)
                      ELSE None
                IN  IF main_location.panicked
                    THEN [panicked |-> TRUE, asset |-> None]
                    ELSE [panicked |-> FALSE,
                          asset |-> Some(NodePackage(
                            Unwrap(package_json_file),
                            IF IsSome(file_in_directory) THEN Unwrap(file_in_directory)
                            ELSE IF IsSome(main_location.location)
                                 THEN Unwrap(main_location.location)
                                 ELSE location))]
  ELSE LET index == IndexFile(disk, search_space.path, resolver.extensions)
       IN  [panicked |-> FALSE,
            asset |-> IF IsSome(index) THEN Some(ModuleAsset(Unwrap(index))) ELSE None]

\* The loop of resolve_asset: both resolutions are evaluated for a candidate
\* (or() takes its argument by value) and the file's result is preferred.
RECURSIVE ResolveCandidates(_, _, _, _)
ResolveCandidates(disk, resolver, search_space, unresolved) ==
  IF search_space = <<>>
  THEN [panicked |-> FALSE, asset |-> Unresolved(unresolved)]
  ELSE LET file == ResolveFile(disk, resolver, Head(search_space))
           directory == ResolveDirectory(disk, resolver, Head(search_space))
       IN  IF directory.panicked THEN [panicked |-> TRUE, asset |-> Unresolved(unresolved)]
           ELSE IF IsSome(file) THEN [panicked |-> FALSE, asset |-> Unwrap(file)]
           ELSE IF IsSome(directory.asset)
                THEN [panicked |-> FALSE, asset |-> Unwrap(directory.asset)]
           ELSE ResolveCandidates(disk, resolver, Tail(search_space), unresolved)

\* The Dependency variant of an import kind.
DependencyFlavor(import_kind) ==
  CASE import_kind = "Require" -> "Require"
    [] import_kind = "AsyncImport" -> "AsyncImport"
    [] OTHER -> "Import"

\* resolve_asset: whether it panicked, and the Dependency it returned.
ResolveAsset(disk, resolver, location, unresolved_dependency) ==
  LET found == ResolveCandidates(disk, resolver,
                 CreateSearchSpace(disk, resolver, location, unresolved_dependency.path),
                 unresolved_dependency.path)
  IN  [panicked |-> found.panicked,
       dependency |-> Dep(DependencyFlavor(unresolved_dependency.kind), found.asset)]

\* A resolve_asset call that returns.
ResolveAssetReturns ==
  /\ resolution.state = "request"
  /\ LET outcome == ResolveAsset(resolution.disk, resolution.resolver,
                                 resolution.location, resolution.unresolved)
     IN  /\ ~outcome.panicked
         /\ resolution' = [resolution EXCEPT !.state = "returned",
                                             !.dependency = Some(outcome.dependency)]
  /\ UNCHANGED <<cache, entry, pc, parsing, host, ingestion>>
  /\ UNCHANGED <<analysisVars, builderVars>>

\* A resolve_asset call that panics.
ResolveAssetPanics ==
  /\ resolution.state = "request"
  /\ ResolveAsset(resolution.disk, resolution.resolver,
                  resolution.location, resolution.unresolved).panicked
  /\ resolution' = [resolution EXCEPT !.state = "panicked"]
  /\ UNCHANGED <<cache, entry, pc, parsing, host, ingestion>>
  /\ UNCHANGED <<analysisVars, builderVars>>

\* The files a project may or may not have, next to the referring file.
OptionalFiles ==
  {Join(ResolveRoot, <<"a", "b", "x.js">>),
   Join(ResolveRoot, <<"a", "b", "x.ts">>),
   Join(ResolveRoot, <<"a", "b", "x.css">>),
   Join(ResolveRoot, <<"a", "b", "x", "index.js">>),
   Join(ResolveRoot, <<"a", "b", "x", "index.ts">>),
   Join(ResolveRoot, <<"x.js">>),
   Join(ResolveRoot, <<"inc", "x.ts">>),
   Join(ResolveRoot, <<"a", "node_modules", "x", "package.json">>),
   Join(ResolveRoot, <<"a", "node_modules", "x", "index.ts">>),
   Join(ResolveRoot, <<"node_modules", "x", "package.json">>),
   Join(ResolveRoot, <<"node_modules", "x", "main.js">>),
   Join(ResolveRoot, <<"node_modules", "x", "lib", "index.js">>),
   Join(ResolveRoot, <<"node_modules", "x.js">>),
   Join(ResolveRoot, <<"package.json">>)}

\* What a package.json may hold: invalid JSON, a main entry, or none (the
\* default, index.js).
DescriptorChoices ==
  {[valid |-> FALSE, main |-> "index.js"],
   [valid |-> TRUE, main |-> "main.js"],
   [valid |-> TRUE, main |-> "index.js"]}

\* The disks: the referring file and at most MaxFiles of the optional files,
\* every package.json with some content.
ResolverDisks ==
  UNION {{[files |-> present \cup {FileC}, descriptors |-> descriptors] :
            descriptors \in [{f \in present : f[Len(f)] = "package.json"}
                               -> DescriptorChoices]} :
         present \in {chosen \in SUBSET OptionalFiles : Cardinality(chosen) <= MaxFiles}}

\* The orders in which a HashSet of the extensions may be iterated.
ExtensionOrders == {<<"js", "ts">>, <<"ts", "js">>}

\* Resolver::new(root, ["inc"]) with the extensions js and ts.
Resolvers ==
  {[recursively_resolve_node_modules |-> FALSE,
    resolve_root |-> ResolveRoot,
    extensions |-> order,
    included_directories |-> <<<<"inc">>>>] : order \in ExtensionOrders}

\* The imports that are resolved.
UnresolvedImports ==
  {[kind |-> "Import", path |-> <<"x">>],
   [kind |-> "Require", path |-> <<"x.css">>],
   [kind |-> "Import", path |-> <<"x.js">>],
   [kind |-> "AsyncImport", path |-> <<"x", "lib">>],
   [kind |-> "ExportFrom", path |-> Join(ResolveRoot, <<"x.js">>)]}

InitResolve ==
  /\ resolution \in {[state |-> "request", disk |-> disk, resolver |-> resolver,
                      location |-> FileC, unresolved |-> unresolved,
                      dependency |-> None] :
                       disk \in ResolverDisks, resolver \in Resolvers,
                       unresolved \in UnresolvedImports}
  /\ parsing = [state |-> "idle"]
  /\ host = [state |-> "idle"]
  /\ ingestion = [state |-> "idle"]
  /\ cache = EmptyMap
  /\ entry = FileC
  /\ pc = "resolve"
  /\ AnalysisIdle
  /\ BuilderIdle

NextResolve ==
  \/ ResolveAssetReturns
  \/ ResolveAssetPanics

SpecResolve == InitResolve /\ [][NextResolve]_vars

\* ------------------------------------------------------------------ parser

\* What is left of the text after its first n characters.
Drop(text, n) == SubSeq(text, n + 1, Len(text))

StartsWith(text, prefix) ==
  Len(text) >= Len(prefix) /\ SubSeq(text, 1, Len(prefix)) = prefix

\* nom tag: the rest after the literal, None when the text does not start
\* with it.
Tag(literal, text) ==
  IF StartsWith(text, literal) THEN Some(Drop(text, Len(literal))) ELSE None

Whitespace == {" ", "\n", "\t", "\r"}

\* nom multispace0: the rest after zero or more whitespace characters.
RECURSIVE Multispace0(_)
Multispace0(text) ==
  IF Len(text) > 0 /\ SubSeq(text, 1, 1) \in Whitespace
  THEN Multispace0(Drop(text, 1))
  ELSE text

\* nom take_until: the text before the first occurrence of the literal, and
\* the rest from that occurrence on.
TakeUntil(literal, text) ==
  LET found == {i \in 1..(Len(text) - Len(literal) + 1) :
                  SubSeq(text, i, i + Len(literal) - 1) = literal}
  IN  IF found = {} THEN None
      ELSE LET i == CHOOSE k \in found : \A j \in found : k <= j
           IN  Some([taken |-> SubSeq(text, 1, i - 1), rest |-> Drop(text, i - 1)])

\* Length of the longest prefix without the character.
RECURSIVE PrefixWithout(_, _)
PrefixWithout(character, text) ==
  IF Len(text) > 0 /\ SubSeq(text, 1, 1) /= character
  THEN 1 + PrefixWithout(character, Drop(text, 1))
  ELSE 0

\* delimited(char(q), is_not(q), char(q)): a non-empty string between quotes.
Quoted(quote, text) ==
  IF ~StartsWith(text, quote) THEN None
  ELSE LET n == PrefixWithout(quote, Drop(text, 1))
       IN  IF n = 0 \/ ~StartsWith(Drop(text, 1 + n), quote) THEN None
           ELSE Some([path |-> SubSeq(text, 2, 1 + n), rest |-> Drop(text, 2 + n)])

\* path_string: a single-quoted or a double-quoted string.
PathString(text) ==
  IF IsSome(Quoted("'", text)) THEN Quoted("'", text) ELSE Quoted("\"", text)

WordCharacters ==
  {"a", "b", "c", "d", "e", "f", "g", "h", "i", "j", "k", "l", "m", "n", "o",
   "p", "q", "r", "s", "t", "u", "v", "w", "x", "y", "z", "A", "B", "C", "D",
   "E", "F", "G", "H", "I", "J", "K", "L", "M", "N", "O", "P", "Q", "R", "S",
   "T", "U", "V", "W", "X", "Y", "Z", "0", "1", "2", "3", "4", "5", "6", "7",
   "8", "9", "_"}

\* Length of the longest prefix made of characters of the class.
RECURSIVE PrefixOf(_, _)
PrefixOf(class, text) ==
  IF Len(text) > 0 /\ SubSeq(text, 1, 1) \in class
  THEN 1 + PrefixOf(class, Drop(text, 1))
  ELSE 0

\* The regex \{\s*type\s+\w+,?\s+\} matches at the start of the text.
TypeOnlyBraces(text) ==
  /\ StartsWith(text, "{")
  /\ LET after_brace == Multispace0(Drop(text, 1))
     IN  /\ StartsWith(after_brace, "type")
         /\ LET after_type == Drop(after_brace, 4)
                spaces == PrefixOf(Whitespace, after_type)
                name == Drop(after_type, spaces)
                word == PrefixOf(WordCharacters, name)
                after_name == Drop(name, word)
                after_comma == IF StartsWith(after_name, ",")
                               THEN Drop(after_name, 1) ELSE after_name
            IN  /\ spaces >= 1
                /\ word >= 1
                /\ PrefixOf(Whitespace, after_comma) >= 1
                /\ StartsWith(Multispace0(after_comma), "}")

\* Regex::is_match: the regex matches somewhere in the text.
OnlyContainsType(text) ==
  \E i \in 1..Len(text) : TypeOnlyBraces(Drop(text, i - 1))

\* An import that was parsed, and the text after it.
Parsed(kind, path, remaining) ==
  Some([import |-> [kind |-> kind, path |-> path], remaining |-> remaining])

\* tuple((keyword + multispace0, take_until("from"), from, path_string)).
KeywordFrom(keyword, text) ==
  LET after_keyword == Tag(keyword, text)
  IN  IF ~IsSome(after_keyword) THEN None
      ELSE LET meat == TakeUntil("from", Multispace0(Unwrap(after_keyword)))
           IN  IF ~IsSome(meat) THEN None
               ELSE LET path == PathString(Multispace0(Drop(Multispace0(Unwrap(meat).rest), 4)))
                    IN  IF ~IsSome(path) THEN None
                        ELSE Some([meat |-> Unwrap(meat).taken,
                                   path |-> Unwrap(path).path,
                                   rest |-> Unwrap(path).rest])

\* parse_import_statement.
ParseImportStatement(module_contents) ==
  LET output == KeywordFrom("import", module_contents)
  IN  IF ~IsSome(output) THEN None
      ELSE IF StartsWith(Unwrap(output).meat, "type")
              \/ OnlyContainsType(Unwrap(output).meat)
           THEN None
           ELSE Parsed("Import", Unwrap(output).path, Unwrap(output).rest)

\* delimited(tag(open), path_string, tag(")")).
Call(open, kind, module_contents) ==
  LET after_open == Tag(open, module_contents)
  IN  IF ~IsSome(after_open) THEN None
      ELSE LET path == PathString(Unwrap(after_open))
           IN  IF ~IsSome(path) \/ ~IsSome(Tag(")", Unwrap(path).rest)) THEN None
               ELSE Parsed(kind, Unwrap(path).path, Unwrap(Tag(")", Unwrap(path).rest)))

\* parse_import_promise.
ParseImportPromise(module_contents) == Call("import(", "AsyncImport", module_contents)

\* parse_require_statement.
ParseRequireStatement(module_contents) == Call("require(", "Require", module_contents)

\* parse_export_from.
ParseExportFrom(module_contents) ==
  LET output == KeywordFrom("export", module_contents)
  IN  IF ~IsSome(output) THEN None
      ELSE Parsed("ExportFrom", Unwrap(output).path, Unwrap(output).rest)

\* all_possible_import_types: alt takes the first alternative that matches.
AllPossibleImportTypes(content) ==
  IF IsSome(ParseRequireStatement(content)) THEN ParseRequireStatement(content)
  ELSE IF IsSome(ParseImportStatement(content)) THEN ParseImportStatement(content)
  ELSE IF IsSome(ParseImportPromise(content)) THEN ParseImportPromise(content)
  ELSE ParseExportFrom(content)

\* A removal that removes nothing.
RemoveFirstNothing(contents) == contents

\* String::remove(0).
RemoveFirst(contents) == Drop(contents, 1)

\* parse_many, Ok arm: the import is pushed and the loop goes on with what
\* remains.  Every entry is kept with the offset at which its match began.
ParseMatch ==
  /\ parsing.state = "scanning"
  /\ IsSome(AllPossibleImportTypes(parsing.contents))
  /\ LET matched == Unwrap(AllPossibleImportTypes(parsing.contents))
     IN  parsing' = [parsing EXCEPT
           !.output = Append(@, [kind |-> matched.import.kind,
                                 path |-> matched.import.path,
                                 start |-> Len(parsing.source) - Len(parsing.contents)]),
           !.contents = matched.remaining,
           !.iterations = @ + 1]
  /\ UNCHANGED <<cache, entry, pc, resolution, host, ingestion>>
  /\ UNCHANGED <<analysisVars, builderVars>>

\* parse_many, Err arm on non-empty contents: the first character is removed.
ParseSkip ==
  /\ parsing.state = "scanning"
  /\ ~IsSome(AllPossibleImportTypes(parsing.contents))
  /\ parsing.contents /= ""
  /\ parsing' = [parsing EXCEPT !.contents = RemoveFirst(@), !.iterations = @ + 1]
  /\ UNCHANGED <<cache, entry, pc, resolution, host, ingestion>>
  /\ UNCHANGED <<analysisVars, builderVars>>

\* parse_many, Err arm on empty contents: the loop breaks and Ok(output) is
\* returned.
ParseReturns ==
  /\ parsing.state = "scanning"
  /\ ~IsSome(AllPossibleImportTypes(parsing.contents))
  /\ parsing.contents = ""
  /\ parsing' = [parsing EXCEPT !.state = "Ok", !.iterations = @ + 1]
  /\ UNCHANGED <<cache, entry, pc, resolution, host, ingestion>>
  /\ UNCHANGED <<analysisVars, builderVars>>

\* The statements a source file is made of: the text, and the import it
\* stands for (none for a type-only import, malformed syntax or other code).
Statement(text, import) == [text |-> text, import |-> import]

Construct(kind, path) == Some([kind |-> kind, path |-> path])

Statements ==
  {Statement("import a from \"a\"", Construct("Import", "a")),
   Statement("import('./d')", Construct("AsyncImport", "./d")),
   Statement("require('r')", Construct("Require", "r")),
   Statement("export * from './e'", Construct("ExportFrom", "./e")),
   Statement("import type T from 't'", None),
   Statement("import { type T } from 't'", None),
   Statement("import types from 's'", Construct("Import", "s")),
   Statement("require('u", None),
   Statement("x = 1", None)}

\* The statements of a source file, one per line.
RECURSIVE SourceText(_)
SourceText(statements) ==
  IF statements = <<>> THEN ""
  ELSE statements[1].text \o ";\n" \o SourceText(Tail(statements))

\* The imports a source file holds, each with the offset of its first
\* character.
RECURSIVE Constructs(_, _)
Constructs(statements, offset) ==
  IF statements = <<>> THEN <<>>
  ELSE (IF IsSome(statements[1].import)
        THEN <<[kind |-> Unwrap(statements[1].import).kind,
                path |-> Unwrap(statements[1].import).path,
                start |-> offset]>>
        ELSE <<>>)
       \o Constructs(Tail(statements), offset + Len(statements[1].text) + 2)

\* The source files: at most MaxStatements statements.
Sources ==
  UNION {[1..n -> Statements] : n \in 0..MaxStatements}

\* parse_many is called on a source file.
InitParse ==
  /\ parsing \in {[state |-> "scanning", statements |-> statements,
                   source |-> SourceText(statements),
                   contents |-> SourceText(statements),
                   output |-> <<>>, iterations |-> 0] : statements \in Sources}
  /\ resolution = [state |-> "idle"]
  /\ host = [state |-> "idle"]
  /\ ingestion = [state |-> "idle"]
  /\ cache = EmptyMap
  /\ entry = FileC
  /\ pc = "parse"
  /\ AnalysisIdle
  /\ BuilderIdle

NextParse ==
  \/ ParseMatch
  \/ ParseSkip
  \/ ParseReturns

SpecParse == InitParse /\ [][NextParse]_vars

\* ------------------------------------------------------------------ host

\* The host keeps Arc<RwLock<DependencyAnalysis>> as managed state and runs
\* its commands on threads.  A graph is the list of its nodes, each behind
\* its own Arc<RwLock<..>>; a node is kept as the number of augmentations
\* that have written it.

\* A command leaves the host unchanged outside the host record.
HostOnly ==
  UNCHANGED <<cache, entry, pc, resolution, parsing, ingestion, analysisVars, builderVars>>

\* create_entrypoint_analysis of anaylsis.rs starts by clearing the stored
\* analysis through a write guard it drops at once.
CreateClears ==
  /\ host.command = "anaylsis.rs"
  /\ host.create = "idle"
  /\ host.writer = "none"
  /\ host.readers = {}
  /\ host' = [host EXCEPT !.create = "cleared", !.analysis = None]
  /\ HostOnly

\* create_entrypoint_analysis takes the read lock of the application state
\* and the write lock of the analysis, which it holds until it returns.
CreateLock ==
  /\ host.create = (IF host.command = "anaylsis.rs" THEN "cleared" ELSE "idle")
  /\ host.writer = "none"
  /\ host.readers = {}
  /\ host' = [host EXCEPT !.create = "locked", !.writer = "create",
                          !.state_readers = @ \cup {"create"}]
  /\ HostOnly

\* Building the cache or the analysis fails: the command returns the error
\* and the locks are released.
CreateFails ==
  /\ host.create = "locked"
  /\ host' = [host EXCEPT !.create = "done", !.writer = "none",
                          !.state_readers = @ \ {"create"}]
  /\ HostOnly

\* The analysis is built, augmented when a webpack report is loaded, and
\* stored; the command returns and the locks are released.
CreateStores ==
  /\ host.create = "locked"
  /\ host' = [host EXCEPT
       !.graphs = Append(@, [n \in 1..MaxNodes |->
                               IF host.webpack_statistics THEN 1 ELSE 0]),
       !.analysis = Some(Len(host.graphs) + 1),
       !.create = "done", !.writer = "none",
       !.state_readers = @ \ {"create"}]
  /\ HostOnly

\* The host runs the command again.
CreateAgain ==
  /\ host.create = "done"
  /\ Len(host.graphs) < MaxAnalyses
  /\ host' = [host EXCEPT !.create = "idle"]
  /\ HostOnly

\* create_webpack_statstics has parsed the report and takes the write lock.
WebpackLock ==
  /\ host.webpack = "idle"
  /\ host.writer = "none"
  /\ host.readers = {}
  /\ host' = [host EXCEPT !.webpack = "locked", !.writer = "webpack", !.cursor = 1]
  /\ HostOnly

\* augment_with_webpack_report, under the write lock, writes the next node
\* through the node's own lock.
WebpackAugmentsNode ==
  /\ host.webpack = "locked"
  /\ IsSome(host.analysis)
  /\ host.cursor <= MaxNodes
  /\ host' = [host EXCEPT !.graphs[Unwrap(host.analysis)][host.cursor] = @ + 1,
                          !.cursor = @ + 1]
  /\ HostOnly

\* The block ends (no analysis, or the augmentation is over) and the write
\* lock is released.
WebpackUnlock ==
  /\ host.webpack = "locked"
  /\ ~IsSome(host.analysis) \/ host.cursor > MaxNodes
  /\ host' = [host EXCEPT !.webpack = "unlocked", !.writer = "none"]
  /\ HostOnly

\* The report is stored in the application state, under its write lock.
WebpackStores ==
  /\ host.webpack = "unlocked"
  /\ host.state_readers = {}
  /\ host' = [host EXCEPT !.webpack = "done", !.webpack_statistics = TRUE]
  /\ HostOnly

\* get_entrypoint_analysis takes the read lock.
GetLock ==
  /\ host.get = "idle"
  /\ host.writer = "none"
  /\ host' = [host EXCEPT !.get = "locked", !.readers = @ \cup {"get"}]
  /\ HostOnly

\* The analysis is cloned, which clones the Arcs of its nodes and not the
\* nodes.  In main.rs the clone is returned and the guard dropped, the
\* caller serializing the value afterwards; in anaylsis.rs the value is
\* serialized before the guard is dropped.
GetClones ==
  /\ host.get = "locked"
  /\ host' = [host EXCEPT !.get = "cloned",
                          !.handle = host.analysis,
                          !.readers = IF host.command = "main.rs" THEN @ \ {"get"} ELSE @]
  /\ HostOnly

\* Serialization reads the next node through the node's own lock.
GetSerializesNode ==
  /\ host.get = "cloned"
  /\ IsSome(host.handle)
  /\ Len(host.serialized) < MaxNodes
  /\ host' = [host EXCEPT
       !.serialized = Append(@, host.graphs[Unwrap(host.handle)][Len(host.serialized) + 1])]
  /\ HostOnly

\* The reader has its answer: nothing, or the serialized graph.
GetReturns ==
  /\ host.get = "cloned"
  /\ ~IsSome(host.handle) \/ Len(host.serialized) = MaxNodes
  /\ host' = [host EXCEPT !.get = "done", !.readers = @ \ {"get"}]
  /\ HostOnly

\* The managed state as main() creates it, no command started; the reader
\* is the get_entrypoint_analysis of main.rs or that of anaylsis.rs.
InitHost ==
  /\ host \in {[state |-> "running", command |-> command,
                writer |-> "none", readers |-> {}, state_readers |-> {},
                analysis |-> None, graphs |-> <<>>, webpack_statistics |-> FALSE,
                create |-> "idle", webpack |-> "idle", get |-> "idle",
                cursor |-> 1, handle |-> None, serialized |-> <<>>] :
                  command \in {"main.rs", "anaylsis.rs"}}
  /\ resolution = [state |-> "idle"]
  /\ parsing = [state |-> "idle"]
  /\ ingestion = [state |-> "idle"]
  /\ cache = EmptyMap
  /\ entry = FileC
  /\ pc = "host"
  /\ AnalysisIdle
  /\ BuilderIdle

NextHost ==
  \/ CreateClears
  \/ CreateLock
  \/ CreateFails
  \/ CreateStores
  \/ CreateAgain
  \/ WebpackLock
  \/ WebpackAugmentsNode
  \/ WebpackUnlock
  \/ WebpackStores
  \/ GetLock
  \/ GetClones
  \/ GetSerializesNode
  \/ GetReturns

SpecHost == InitHost /\ [][NextHost]_vars

\* ------------------------------------------------------------------ locks

\* The two managed states are an Arc<RwLock<State>> and an
\* Arc<RwLock<DependencyAnalysis>> (parking_lot).  A command is kept as the
\* list of the lock operations its body performs, in order; a guard is
\* released where its scope ends or where it is dropped.

MaxThreads == 3

Threads == 1..MaxThreads

Read(lock) == [op |-> "read", lock |-> lock]

Write(lock) == [op |-> "write", lock |-> lock]

Release(lock) == [op |-> "release", lock |-> lock]

\* create_webpack_statstics storing the report inside the block that holds
\* the write lock of the analysis.
CreateWebpackStatsticsNested ==
  <<Read("application_state"), Release("application_state"),
    Read("application_state"), Release("application_state"),
    Write("dependency_analysis"), Write("application_state"),
    Release("application_state"), Release("dependency_analysis")>>

\* create_webpack_statstics: the start path is read in a block, the report
\* is created under a read guard that is dropped, the analysis is augmented
\* in a block under its write lock, and the report is stored in a block
\* under the write lock of the application state.
CreateWebpackStatstics ==
  <<Read("application_state"), Release("application_state"),
    Read("application_state"), Release("application_state"),
    Write("dependency_analysis"), Release("dependency_analysis"),
    Write("application_state"), Release("application_state")>>

\* create_entrypoint_analysis of anaylsis.rs: the analysis is cleared
\* through a temporary write guard; then the application state is read and
\* the analysis written, both guards living until the function returns.
CreateEntrypointAnalysis ==
  <<Write("dependency_analysis"), Release("dependency_analysis"),
    Read("application_state"), Write("dependency_analysis"),
    Release("dependency_analysis"), Release("application_state")>>

\* create_entrypoint_analysis of main.rs, which does not clear the analysis.
CreateEntrypointAnalysisMain ==
  <<Read("application_state"), Write("dependency_analysis"),
    Release("dependency_analysis"), Release("application_state")>>

\* create_root_tree: the start path is read in a block, the tree is opened
\* under a read guard scoped to the branch, and the state is written in a
\* block.
CreateRootTree ==
  <<Read("application_state"), Release("application_state"),
    Read("application_state"), Release("application_state"),
    Write("application_state"), Release("application_state")>>

GetApplicationState ==
  <<Read("application_state"), Release("application_state")>>

GetEntrypointAnalysis ==
  <<Read("dependency_analysis"), Release("dependency_analysis")>>

\* The commands of the invoke handler.
Commands ==
  {CreateWebpackStatstics, CreateEntrypointAnalysis, CreateEntrypointAnalysisMain,
   CreateRootTree, GetApplicationState, GetEntrypointAnalysis}

\* An RwLock nobody holds.
Unlocked == [writer |-> 0, readers |-> {}, waiting |-> {}]

\* The operation a thread is at, None when its command has returned.
Operation(thread) ==
  IF host.at[thread] > Len(host.command[thread]) THEN None
  ELSE Some(host.command[thread][host.at[thread]])

LocksOnly ==
  UNCHANGED <<cache, entry, pc, resolution, parsing, ingestion, analysisVars, builderVars>>

\* RwLock::write finds the lock taken: the thread parks as a waiting writer.
WriteWaits(thread) ==
  /\ IsSome(Operation(thread))
  /\ LET operation == Unwrap(Operation(thread))
         lock == host.locks[operation.lock]
     IN  /\ operation.op = "write"
         /\ thread \notin lock.waiting
         /\ lock.writer /= 0 \/ lock.readers /= {}
         /\ host' = [host EXCEPT !.locks[operation.lock].waiting = @ \cup {thread}]
  /\ LocksOnly

\* RwLock::write returns: nobody holds the lock.
WriteLocks(thread) ==
  /\ IsSome(Operation(thread))
  /\ LET operation == Unwrap(Operation(thread))
         lock == host.locks[operation.lock]
     IN  /\ operation.op = "write"
         /\ lock.writer = 0
         /\ lock.readers = {}
         /\ host' = [host EXCEPT !.locks[operation.lock].writer = thread,
                                 !.locks[operation.lock].waiting = @ \ {thread},
                                 !.at[thread] = @ + 1]
  /\ LocksOnly

\* RwLock::read returns: no writer holds the lock and none is waiting for it.
ReadLocks(thread) ==
  /\ IsSome(Operation(thread))
  /\ LET operation == Unwrap(Operation(thread))
         lock == host.locks[operation.lock]
     IN  /\ operation.op = "read"
         /\ lock.writer = 0
         /\ lock.waiting = {}
         /\ host' = [host EXCEPT !.locks[operation.lock].readers = @ \cup {thread},
                                 !.at[thread] = @ + 1]
  /\ LocksOnly

\* A guard is dropped.
Unlocks(thread) ==
  /\ IsSome(Operation(thread))
  /\ LET operation == Unwrap(Operation(thread))
         lock == host.locks[operation.lock]
     IN  /\ operation.op = "release"
         /\ host' = [host EXCEPT
              !.locks[operation.lock].writer = IF @ = thread THEN 0 ELSE @,
              !.locks[operation.lock].readers = @ \ {thread},
              !.at[thread] = @ + 1]
  /\ LocksOnly

\* Each thread of the host runs one command, from its start.
InitLocks ==
  /\ host \in {[state |-> "locks", command |-> command,
                at |-> [thread \in Threads |-> 1],
                locks |-> [application_state |-> Unlocked,
                           dependency_analysis |-> Unlocked]] :
                  command \in [Threads -> Commands]}
  /\ resolution = [state |-> "idle"]
  /\ parsing = [state |-> "idle"]
  /\ ingestion = [state |-> "idle"]
  /\ cache = EmptyMap
  /\ entry = FileC
  /\ pc = "locks"
  /\ AnalysisIdle
  /\ BuilderIdle

NextLocks ==
  \/ \E thread \in Threads : WriteWaits(thread)
  \/ \E thread \in Threads : WriteLocks(thread)
  \/ \E thread \in Threads : ReadLocks(thread)
  \/ \E thread \in Threads : Unlocks(thread)

SpecLocks == InitLocks /\ [][NextLocks]_vars

\* The locks are handed over: a command that can go on does.
SpecLocksFair == SpecLocks /\ WF_vars(NextLocks)

\* ------------------------------------------------------------------ report

\* str::contains.
Contains(text, literal) == IsSome(TakeUntil(literal, text))

\* Regex ".+!" replaced by "": the match is greedy and runs from the start
\* of the name through its last "!", one character at least before it.
RECURSIVE StripLoaders(_)
StripLoaders(name) ==
  LET marks == {i \in 2..Len(name) : SubSeq(name, i, i) = "!"}
  IN  IF marks = {} THEN name
      ELSE StripLoaders(Drop(name, CHOOSE i \in marks : \A j \in marks : j <= i))

\* The components of a relative path, "." and empty components left out.
RECURSIVE Components(_)
Components(text) ==
  IF text = "" THEN <<>>
  ELSE LET n == PrefixWithout("/", text)
           name == SubSeq(text, 1, n)
       IN  (IF name \in {"", "."} THEN <<>> ELSE <<name>>)
             \o Components(Drop(text, n + 1))

\* resolve_root joined with the module's name and Location::new of it: None
\* when the path does not exist.
ModuleLocation(files, name) ==
  LET path == Canonicalize(Join(ResolveRoot, Components(StripLoaders(name))))
  IN  IF path \in files THEN Some(path) ELSE None

\* A Module of the raw report.
RawModule(name, chunk_ids, modules) ==
  [name |-> name, chunks |-> chunk_ids, modules |-> modules]

\* A WebpackReportRaw.
RawReport(modules, raw_chunks, children) ==
  [modules |-> modules, chunks |-> raw_chunks, children |-> children]

\* The modules webpack leaves out of the chunk mapping.
Ignored(name) ==
  Contains(name, " (ignored)") \/ Contains(name, " sync ") \/ StartsWith(name, "external ")

\* The child modules of a composite module, each with the chunks it declares.
ChildModulesOwnChunks(module) == Unwrap(module.modules)

\* A composite module hands its chunks to its child modules.
ChildModules(module) ==
  [k \in 1..Len(Unwrap(module.modules)) |->
     [Unwrap(module.modules)[k] EXCEPT !.chunks = module.chunks]]

\* chunk_map after the loop over a sub-report's chunks.
RECURSIVE InsertChunks(_, _)
InsertChunks(chunk_map, raw_chunks) ==
  IF raw_chunks = <<>> THEN chunk_map
  ELSE InsertChunks(MapInsert(chunk_map, raw_chunks[1].id, raw_chunks[1]),
                    Tail(raw_chunks))

\* output_map.entry(location).or_insert(vec![]).append(chunks).
AppendChunks(output_map, location, chunk_list) ==
  MapInsert(output_map, location,
            (IF location \in DOMAIN output_map THEN output_map[location] ELSE <<>>)
              \o chunk_list)

\* The reader does not hold a WebpackReportRaw: serde_json fails and the
\* error is returned.
IngestInvalid ==
  /\ ingestion.state = "reading"
  /\ ~IsSome(ingestion.document)
  /\ ingestion' = [ingestion EXCEPT !.state = "Err", !.error = "serde_json"]
  /\ UNCHANGED <<cache, entry, pc, resolution, parsing, host, analysisVars, builderVars>>

\* The document is deserialized: its children are the sub-reports, or the
\* document itself when it has none.
IngestRead ==
  /\ ingestion.state = "reading"
  /\ IsSome(ingestion.document)
  /\ LET raw_reports == Unwrap(ingestion.document)
     IN  ingestion' = [ingestion EXCEPT
           !.state = "reports",
           !.webpack_reports = IF IsSome(raw_reports.children)
                               THEN Unwrap(raw_reports.children)
                               ELSE <<raw_reports>>]
  /\ UNCHANGED <<cache, entry, pc, resolution, parsing, host, analysisVars, builderVars>>

\* The next sub-report has its chunks and its modules: the chunks are
\* inserted into chunk_map and the modules become the queue.
IngestReport ==
  /\ ingestion.state = "reports"
  /\ ingestion.webpack_reports /= <<>>
  /\ LET webpack_report == ingestion.webpack_reports[1]
     IN  /\ IsSome(webpack_report.chunks)
         /\ IsSome(webpack_report.modules)
         /\ ingestion' = [ingestion EXCEPT
              !.state = "modules",
              !.webpack_reports = Tail(@),
              !.chunk_map = InsertChunks(@, Unwrap(webpack_report.chunks)),
              !.queue = Unwrap(webpack_report.modules)]
  /\ UNCHANGED <<cache, entry, pc, resolution, parsing, host, analysisVars, builderVars>>

\* The next sub-report lacks its chunks or its modules: one of the two
\* assert! fails.
IngestAsserts ==
  /\ ingestion.state = "reports"
  /\ ingestion.webpack_reports /= <<>>
  /\ LET webpack_report == ingestion.webpack_reports[1]
     IN  ~IsSome(webpack_report.chunks) \/ ~IsSome(webpack_report.modules)
  /\ ingestion' = [ingestion EXCEPT !.state = "panicked", !.error = "assert"]
  /\ UNCHANGED <<cache, entry, pc, resolution, parsing, host, analysisVars, builderVars>>

\* One turn of the loop over the queue: the last module is popped; an
\* ignored one is dropped, a composite one replaced by its children, and any
\* other is located and its chunks appended to the entry of its location.
IngestModule ==
  /\ ingestion.state = "modules"
  /\ ingestion.queue /= <<>>
  /\ LET module == ingestion.queue[Len(ingestion.queue)]
         rest == SubSeq(ingestion.queue, 1, Len(ingestion.queue) - 1)
         location == ModuleLocation(ingestion.files, module.name)
     IN  ingestion' =
           IF Ignored(module.name) THEN [ingestion EXCEPT !.queue = rest]
           ELSE IF IsSome(module.modules)
           THEN [ingestion EXCEPT !.queue = rest \o ChildModules(module)]
           ELSE IF ~IsSome(location)
           THEN [ingestion EXCEPT !.state = "Err", !.error = "custom"]
           ELSE IF \E k \in 1..Len(module.chunks) :
                     module.chunks[k] \notin DOMAIN ingestion.chunk_map
           THEN [ingestion EXCEPT !.state = "panicked", !.error = "unwrap"]
           ELSE [ingestion EXCEPT
                   !.queue = rest,
                   !.output_map = AppendChunks(@, Unwrap(location),
                                    [k \in 1..Len(module.chunks) |->
                                       ingestion.chunk_map[module.chunks[k]]])]
  /\ UNCHANGED <<cache, entry, pc, resolution, parsing, host, analysisVars, builderVars>>

\* The queue is empty: the loop breaks and the next sub-report follows.
IngestBreak ==
  /\ ingestion.state = "modules"
  /\ ingestion.queue = <<>>
  /\ ingestion' = [ingestion EXCEPT !.state = "reports"]
  /\ UNCHANGED <<cache, entry, pc, resolution, parsing, host, analysisVars, builderVars>>

\* No sub-report is left: the report is returned.
IngestReturns ==
  /\ ingestion.state = "reports"
  /\ ingestion.webpack_reports = <<>>
  /\ ingestion' = [ingestion EXCEPT !.state = "Ok"]
  /\ UNCHANGED <<cache, entry, pc, resolution, parsing, host, analysisVars, builderVars>>

\* The modules a sub-report may list: two files, one behind a loader, a
\* composite module, a composite module inside a composite module, an
\* ignored module, a context module with a nested file, and a file that is
\* not on disk.
RawModules ==
  {RawModule("./a/b/c.js", <<1>>, None),
   RawModule("css-loader!./a/e.js", <<2, 1>>, None),
   RawModule("./a/b/c.js + 1 modules", <<1>>,
             Some(<<RawModule("./a/b/d.js", <<>>, None)>>)),
   RawModule("./a/e.js + 2 modules", <<2>>,
             Some(<<RawModule("./a/b/d.js + 1 modules", <<1>>,
                      Some(<<RawModule("./a/b/d.js", <<1>>, None)>>))>>)),
   RawModule("fs (ignored)", <<>>, None),
   RawModule("./a sync ^.*$", <<1>>,
             Some(<<RawModule("./a/b/c.js", <<1>>, None)>>)),
   RawModule("./gone.js", <<1>>, None)}

\* The sub-reports: the modules and the chunks are each absent or present;
\* the ids of the chunks are those of one compilation, so that two
\* sub-reports may use the id 1 for two chunks.
SubReports ==
  {RawReport(modules, raw_chunks, None) :
     modules \in {None} \cup {Some(list) :
                    list \in UNION {[1..n -> RawModules] : n \in 0..MaxModules}},
     raw_chunks \in {None, Some(ChunkTable), Some(<<ChunkTable[1]>>),
                     Some(<<Chunk(1, <<>>, <<3>>)>>)}}

\* A sub-report with its modules and its chunks.
CompleteReport ==
  RawReport(Some(<<RawModule("./a/b/c.js", <<1>>, None)>>), Some(ChunkTable), None)

\* What the reader may hold: no valid document, the report of a single
\* configuration, or one with the reports of its configurations as children.
Documents ==
  {None} \cup {Some(report) : report \in SubReports}
    \cup {Some(RawReport(None, None, Some(<<report>>))) : report \in SubReports}
    \cup {Some(RawReport(None, None, Some(<<CompleteReport, report>>))) :
            report \in SubReports}

\* create_report_from_reader is called on a reader.
InitIngest ==
  /\ ingestion \in {[state |-> "reading", document |-> document,
                     files |-> Range(SourceFiles), webpack_reports |-> <<>>,
                     queue |-> <<>>, chunk_map |-> EmptyMap,
                     output_map |-> EmptyMap, error |-> "none"] :
                       document \in Documents}
  /\ resolution = [state |-> "idle"]
  /\ parsing = [state |-> "idle"]
  /\ host = [state |-> "idle"]
  /\ cache = EmptyMap
  /\ entry = FileC
  /\ pc = "ingest"
  /\ AnalysisIdle
  /\ BuilderIdle

NextIngest ==
  \/ IngestInvalid
  \/ IngestRead
  \/ IngestReport
  \/ IngestAsserts
  \/ IngestModule
  \/ IngestBreak
  \/ IngestReturns

SpecIngest == InitIngest /\ [][NextIngest]_vars

\* ------------------------------------------------------------------ descriptor

\* str::replace(literal, ""): every occurrence of the literal is removed.
RECURSIVE Without(_, _)
Without(text, literal) ==
  LET found == TakeUntil(literal, text)
  IN  IF ~IsSome(found) THEN text
      ELSE Unwrap(found).taken \o Without(Drop(Unwrap(found).rest, Len(literal)), literal)

\* The specifier for an entry of `dependencies`: the key, or the value
\* without "file:" when the value is a string starting with "file:".  The
\* value is None when it is not a string.
Specifier(key, value) ==
  IF IsSome(value) /\ StartsWith(Unwrap(value), "file:")
  THEN Without(Unwrap(value), "file:")
  ELSE key

\* resolve_package_json_dependencies: whether a resolution panicked, and the
\* dependencies, none without recursively_resolve_node_modules.
ResolvePackageJsonDependencies(disk, resolver, package_json_location, dependencies) ==
  IF resolver.recursively_resolve_node_modules
  THEN LET resolved ==
             [k \in 1..Len(dependencies) |->
                ResolveAsset(disk, resolver, package_json_location,
                             [kind |-> "NodeDependency",
                              path |-> Components(Specifier(dependencies[k].key,
                                                            dependencies[k].value))])]
       IN  [panicked |-> \E k \in 1..Len(dependencies) : resolved[k].panicked,
            dependencies |-> [k \in 1..Len(dependencies) |-> resolved[k].dependency]]
  ELSE [panicked |-> FALSE, dependencies |-> <<>>]

\* process_package_json returns the NodeModule: the descriptor is valid JSON
\* and its main file exists.
ProcessPackageReturns ==
  /\ resolution.state = "descriptor"
  /\ resolution.disk.descriptors[resolution.location].valid
  /\ LET main_file_path == LocationNew(resolution.disk,
                             Join(Pop(resolution.location),
                                  <<resolution.disk.descriptors[resolution.location].main>>))
         dependencies == ResolvePackageJsonDependencies(resolution.disk,
                           resolution.resolver, resolution.location,
                           resolution.dependencies)
     IN  /\ IsSome(main_file_path)
         /\ ~dependencies.panicked
         /\ resolution' = [resolution EXCEPT
              !.state = "Ok",
              !.module = Some([location |-> Unwrap(main_file_path),
                               kind |-> "NodeModule",
                               dependencies |-> dependencies.dependencies])]
  /\ UNCHANGED <<cache, entry, pc, parsing, host, ingestion>>
  /\ UNCHANGED <<analysisVars, builderVars>>

\* The main file does not exist: Location::new fails and the Err is returned.
ProcessPackageFails ==
  /\ resolution.state = "descriptor"
  /\ resolution.disk.descriptors[resolution.location].valid
  /\ ~IsSome(LocationNew(resolution.disk,
                         Join(Pop(resolution.location),
                              <<resolution.disk.descriptors[resolution.location].main>>)))
  /\ resolution' = [resolution EXCEPT !.state = "Err"]
  /\ UNCHANGED <<cache, entry, pc, parsing, host, ingestion>>
  /\ UNCHANGED <<analysisVars, builderVars>>

\* The descriptor, or one read while its dependencies are resolved, is not
\* valid JSON: the unwrap panics.
ProcessPackagePanics ==
  /\ resolution.state = "descriptor"
  /\ \/ ~resolution.disk.descriptors[resolution.location].valid
     \/ /\ IsSome(LocationNew(resolution.disk,
                    Join(Pop(resolution.location),
                         <<resolution.disk.descriptors[resolution.location].main>>)))
        /\ ResolvePackageJsonDependencies(resolution.disk, resolution.resolver,
             resolution.location, resolution.dependencies).panicked
  /\ resolution' = [resolution EXCEPT !.state = "panicked"]
  /\ UNCHANGED <<cache, entry, pc, parsing, host, ingestion>>
  /\ UNCHANGED <<analysisVars, builderVars>>

\* The entries `dependencies` may have: a version, two paths behind "file:",
\* one of them with "file:" inside a directory name, and a value that is not
\* a string.
DependencyEntries ==
  {[key |-> "x", value |-> Some("1.0.0")],
   [key |-> "local", value |-> Some("file:../x")],
   [key |-> "profile", value |-> Some("file:../profile:v2")],
   [key |-> "y", value |-> None]}

\* The files beside the package m: the packages of the resolver's disks and
\* two directories next to m.
PackageFiles ==
  {Join(ResolveRoot, <<"node_modules", "m", "index.js">>),
   Join(ResolveRoot, <<"node_modules", "x", "package.json">>),
   Join(ResolveRoot, <<"node_modules", "x", "main.js">>),
   Join(ResolveRoot, <<"node_modules", "profile:v2", "index.js">>),
   Join(ResolveRoot, <<"node_modules", "prov2", "index.js">>),
   Join(ResolveRoot, <<"node_modules", "y.js">>)}

\* The disks: the descriptor of m, and at most MaxFiles of the other files;
\* the descriptors of the packages m depends on list no dependencies.
PackageDisks ==
  UNION {{[files |-> present \cup {PackageJson}, descriptors |-> descriptors] :
            descriptors \in [{f \in present \cup {PackageJson} :
                                f[Len(f)] = "package.json"} -> DescriptorChoices]} :
         present \in {chosen \in SUBSET PackageFiles : Cardinality(chosen) <= MaxFiles}}

\* The resolvers: Resolver::new, and one with
\* recursively_resolve_node_modules set.
PackageResolvers ==
  {[recursively_resolve_node_modules |-> flag,
    resolve_root |-> ResolveRoot,
    extensions |-> <<"js", "ts">>,
    included_directories |-> <<<<"inc">>>>] : flag \in BOOLEAN}

\* process_package_json is called on the descriptor of m.
InitPackage ==
  /\ resolution \in {[state |-> "descriptor", disk |-> disk, resolver |-> resolver,
                      location |-> PackageJson, dependencies |-> dependencies,
                      module |-> None] :
                       disk \in PackageDisks, resolver \in PackageResolvers,
                       dependencies \in UNION {[1..n -> DependencyEntries] :
                                                 n \in 0..MaxDependencies}}
  /\ parsing = [state |-> "idle"]
  /\ host = [state |-> "idle"]
  /\ ingestion = [state |-> "idle"]
  /\ cache = EmptyMap
  /\ entry = FileC
  /\ pc = "package"
  /\ AnalysisIdle
  /\ BuilderIdle

NextPackage ==
  \/ ProcessPackageReturns
  \/ ProcessPackageFails
  \/ ProcessPackagePanics

SpecPackage == InitPackage /\ [][NextPackage]_vars

\* ------------------------------------------------------------------ properties

\* Whether directory `dir` lies above `path`: a proper prefix of it.
IsAncestor(dir, path) ==
  /\ Len(dir) < Len(path)
  /\ \A k \in 1..Len(dir) : dir[k] = path[k]

\* How often a value occurs in a Vec.
Occurrences(vec, x) == Cardinality({k \in 1..Len(vec) : vec[k] = x})

\* C1: once create_from_cache has returned, j is in all_nodes[i].outgoing
\* exactly when i is in all_nodes[j].incoming, for all file nodes i and j.
C1_EdgesConsistent ==
  pc = "ready" =>
    \A i \in Indices(all_nodes) : \A j \in Indices(all_nodes) :
       (j \in At(all_nodes, i).outgoing) <=> (i \in At(all_nodes, j).incoming)

\* C1 witness: a finished analysis of a cache holding an import cycle between
\* two modules and a node whose module is missing from the cache.
C1_Witness ==
  /\ pc = "ready"
  /\ \E i \in Indices(all_nodes) : \E j \in Indices(all_nodes) :
        /\ i /= j
        /\ j \in At(all_nodes, i).outgoing
        /\ i \in At(all_nodes, j).outgoing
  /\ \E m \in Indices(all_nodes) :
        /\ At(all_nodes, m).full_path \notin DOMAIN cache
        /\ At(all_nodes, m).incoming /= {}

\* C2: once create_from_cache has returned, a file node's index is in a
\* group's inclusions exactly when the group's directory is an ancestor of the
\* node's relative path, at most once, and in its immediate_children exactly
\* when the directory is the node's parent.
C2_GroupMembership ==
  pc = "ready" =>
    \A g \in Indices(analysis_groups) : \A n \in Indices(all_nodes) :
       LET G == At(analysis_groups, g)
           N == At(all_nodes, n)
       IN  /\ (n \in Range(G.inclusions))
                <=> IsAncestor(G.resolver_relative_path, N.resolver_relative_path)
           /\ Occurrences(G.inclusions, n) <= 1
           /\ (n \in Range(G.immediate_children))
                <=> (G.resolver_relative_path = Pop(N.resolver_relative_path))
           /\ Occurrences(G.immediate_children, n) <= 1

\* C2 witness: a finished analysis in which a discovered node joined a group
\* made for the entry and another group was made for a discovered node.
C2_Witness ==
  /\ pc = "ready"
  /\ \E g \in Indices(analysis_groups) :
        /\ At(analysis_groups, g).inclusions[1] = 0
        /\ Len(At(analysis_groups, g).inclusions) > 1
        /\ Len(At(analysis_groups, g).immediate_children) > 1
  /\ \E g \in Indices(analysis_groups) :
        /\ At(analysis_groups, g).inclusions[1] /= 0
        /\ At(analysis_groups, g).immediate_children /= <<>>

\* C6: during and after population node_map[L] = i implies
\* all_nodes[i].full_path = L, no two file nodes share a Location, every index
\* of all_nodes is the value of exactly one key, and the entry is at index 0.
C6_NodeMapConsistent ==
  pc \in {"populate", "dependencies", "ready"} =>
    /\ \A L \in DOMAIN node_map :
          /\ node_map[L] \in Indices(all_nodes)
          /\ At(all_nodes, node_map[L]).full_path = L
    /\ \A i \in Indices(all_nodes) : \A j \in Indices(all_nodes) :
          At(all_nodes, i).full_path = At(all_nodes, j).full_path => i = j
    /\ \A i \in Indices(all_nodes) :
          Cardinality({L \in DOMAIN node_map : node_map[L] = i}) = 1
    /\ At(all_nodes, 0).full_path = entry

\* C6 witness: population is in the middle of a module's dependencies, with
\* three nodes in the tree and the next dependency one of them.
C6_Witness ==
  /\ pc = "dependencies"
  /\ Len(all_nodes) >= 3
  /\ todo /= <<>>
  /\ todo[1] \in DOMAIN node_map

\* C7: once create_from_cache has returned, every group's incoming set is the
\* union of the incoming sets of the file nodes in its inclusions.
C7_GroupIncomingIsUnion ==
  pc = "ready" =>
    \A g \in Indices(analysis_groups) :
       At(analysis_groups, g).incoming =
         UNION {At(all_nodes, n).incoming : n \in Range(At(analysis_groups, g).inclusions)}

\* C8: once create_from_cache has returned, every group's outgoing set is the
\* union of the outgoing sets of the file nodes in its inclusions.
C8_GroupOutgoingIsUnion ==
  pc = "ready" =>
    \A g \in Indices(analysis_groups) :
       At(analysis_groups, g).outgoing =
         UNION {At(all_nodes, n).outgoing : n \in Range(At(analysis_groups, g).inclusions)}

\* C8 witness: a finished analysis with a group of two nodes which both import
\* something, one of them a node outside the group.
C8_Witness ==
  /\ pc = "ready"
  /\ \E g \in Indices(analysis_groups) :
        LET G == At(analysis_groups, g)
        IN  /\ Len(G.inclusions) >= 2
            /\ \A n \in Range(G.inclusions) : At(all_nodes, n).outgoing /= {}
            /\ \E n \in Range(G.inclusions) :
                  At(all_nodes, n).outgoing \ Range(G.inclusions) /= {}

\* The ancestor directories of a relative path: its proper prefixes.
Ancestors(path) == {SubSeq(path, 1, k) : k \in 0..(Len(path) - 1)}

\* C3: in every state of a constructed Analysis, augmented or not,
\* analysis_group_map[(R, c)] = k exactly when analysis_groups[k] has the
\* relative path R and the chunk c.
C3_GroupMapExact ==
  pc = "ready" =>
    /\ \A key \in DOMAIN analysis_group_map :
          /\ analysis_group_map[key] \in Indices(analysis_groups)
          /\ At(analysis_groups, analysis_group_map[key]).resolver_relative_path = key[1]
          /\ At(analysis_groups, analysis_group_map[key]).chunk = key[2]
    /\ \A k \in Indices(analysis_groups) :
          LET key == <<At(analysis_groups, k).resolver_relative_path,
                       At(analysis_groups, k).chunk>>
          IN  key \in DOMAIN analysis_group_map /\ analysis_group_map[key] = k

\* C4: after augment_with_webpack_report has returned, every file node N has,
\* for every ancestor directory A of its relative path, a group under the key
\* (A, N.chunk) of analysis_group_map with N's index in its inclusions.
C4_GroupsAtNodeChunk ==
  (pc = "ready" /\ augment_calls > 0) =>
    \A n \in Indices(all_nodes) :
       \A A \in Ancestors(At(all_nodes, n).resolver_relative_path) :
          /\ <<A, At(all_nodes, n).chunk>> \in DOMAIN analysis_group_map
          /\ n \in Range(At(analysis_groups,
                            analysis_group_map[<<A, At(all_nodes, n).chunk>>]).inclusions)

\* C5: after augment_with_webpack_report has returned, every file node is
\* tree-shaken or has a chunk.
C5_ShakenOrChunked ==
  (pc = "ready" /\ augment_calls > 0) =>
    \A n \in Indices(all_nodes) :
       At(all_nodes, n).tree_shaken \/ IsSome(At(all_nodes, n).chunk)

\* C5 witness: an augmented analysis of three file nodes, one absent from the
\* bundle and tree-shaken, the others in two different chunks.
C5_Witness ==
  /\ pc = "ready"
  /\ augment_calls > 0
  /\ Len(all_nodes) = 3
  /\ \E n \in Indices(all_nodes) :
        At(all_nodes, n).tree_shaken /\ ~IsSome(At(all_nodes, n).chunk)
  /\ \E n \in Indices(all_nodes) : \E m \in Indices(all_nodes) :
        /\ IsSome(At(all_nodes, n).chunk)
        /\ IsSome(At(all_nodes, m).chunk)
        /\ At(all_nodes, n).chunk /= At(all_nodes, m).chunk

\* C9: build_dependency_cache never returns Ok when reading or parsing a
\* module or package descriptor failed during the build, at whatever depth.
C9_FailureAborts ==
  result = "Ok" => ~failed

\* C10: when build_dependency_cache returns Ok on an initially empty cache,
\* every Module or NodePackage dependency of every cached module has its
\* location among the cache keys.
C10_CacheClosed ==
  result = "Ok" =>
    \A L \in DOMAIN cache :
       \A k \in 1..Len(cache[L].dependencies) :
          cache[L].dependencies[k].asset.tag \in {"Module", "NodePackage"}
            => cache[L].dependencies[k].asset.target \in DOMAIN cache

C12_RebuildIdentical ==
  (IsSome(first) /\ result \in {"Ok", "Err"}) => cache = Unwrap(first).cache

\* A second call on the kept cache has ended, the first having cached more
\* than the entry.
C12_Witness ==
  /\ IsSome(first)
  /\ result = "Ok"
  /\ Cardinality(DOMAIN cache) >= 3
  /\ parsed = Counted(EmptyMap, entry)

\* The candidates in the order C13 gives for a non-absolute specifier.
StatedOrder(request) ==
  <<SearchSpace("RelativePath", Pop(request.location) \o request.unresolved.path),
    SearchSpace("RelativePath", request.resolver.resolve_root \o request.unresolved.path)>>
  \o [i \in 1..Len(request.resolver.included_directories) |->
        SearchSpace("IncludedPath",
                    request.resolver.resolve_root
                      \o request.resolver.included_directories[i]
                      \o request.unresolved.path)]
  \o [i \in 1..(Len(request.location) - 1) |->
        SearchSpace("NodeModule",
                    SubSeq(request.location, 1, Len(request.location) - i)
                      \o <<"node_modules">> \o request.unresolved.path)]

\* File resolution or directory resolution of the candidate succeeds.
CandidateResolves(request, candidate) ==
  \/ IsSome(ResolveFile(request.disk, request.resolver, candidate))
  \/ IsSome(ResolveDirectory(request.disk, request.resolver, candidate).asset)

\* The asset of a candidate: the file match when there is one, else the
\* directory match.
CandidateAsset(request, candidate) ==
  IF IsSome(ResolveFile(request.disk, request.resolver, candidate))
  THEN Unwrap(ResolveFile(request.disk, request.resolver, candidate))
  ELSE Unwrap(ResolveDirectory(request.disk, request.resolver, candidate).asset)

\* C13: resolve_asset returns the asset of the first candidate that resolves,
\* in the order parent directory, resolve root, included directories,
\* node_modules of each ancestor from the nearest on; a file match wins over a
\* directory match of the same candidate; with no candidate resolving the
\* asset is Unresolved.
C13_FirstCandidateWins ==
  (resolution.state = "returned" /\ resolution.unresolved.path[1] /= "/") =>
    LET order == StatedOrder(resolution)
        hits == {i \in 1..Len(order) : CandidateResolves(resolution, order[i])}
        asset == Unwrap(resolution.dependency).asset
    IN  IF hits = {}
        THEN asset = Unresolved(resolution.unresolved.path)
        ELSE \E i \in hits :
                /\ \A j \in hits : i <= j
                /\ asset = CandidateAsset(resolution, order[i])

\* An import resolved to the file of the referrer's directory although the
\* resolve root has a file for it too, and another resolved to a file while
\* the same candidate is a directory with an index file.
C13_Witness ==
  /\ resolution.state = "returned"
  /\ resolution.unresolved.path = <<"x">>
  /\ Unwrap(resolution.dependency).asset
       = ModuleAsset(Join(ResolveRoot, <<"a", "b", "x.js">>))
  /\ Join(ResolveRoot, <<"x.js">>) \in resolution.disk.files
  /\ Join(ResolveRoot, <<"a", "b", "x", "index.js">>) \in resolution.disk.files

\* C14: resolve_asset never aborts, whatever the disk holds.
C14_NeverAborts ==
  resolution.state /= "panicked"

\* C15: the Dependency resolve_asset returns is the same for every order in
\* which the extension set is iterated.
C15_SameInEveryRun ==
  resolution.state = "returned" =>
    \A order \in ExtensionOrders :
       LET again == ResolveAsset(resolution.disk,
                                 [resolution.resolver EXCEPT !.extensions = order],
                                 resolution.location, resolution.unresolved)
       IN  /\ ~again.panicked
           /\ again.dependency = Unwrap(resolution.dependency)

\* The imports the source file being parsed holds.
SourceConstructs == Constructs(parsing.statements, 0)

\* C16: the entries of parse_many's output are in source order, and each is
\* the import that starts where its match began, with that import's kind and
\* path.
C16_SourceOrder ==
  parsing.state = "Ok" =>
    /\ \A k \in 1..(Len(parsing.output) - 1) :
          parsing.output[k].start < parsing.output[k + 1].start
    /\ \A k \in 1..Len(parsing.output) :
          \E c \in Range(SourceConstructs) : c = parsing.output[k]

\* C17: every dynamic import of the source yields an AsyncImport entry with
\* its path, whatever follows it.
C17_DynamicImportsKept ==
  parsing.state = "Ok" =>
    \A c \in Range(SourceConstructs) :
       c.kind = "AsyncImport" => c \in Range(parsing.output)

\* C18: a static import statement is left out of the output exactly when it
\* is type-only.
C18_OnlyTypeImportsOmitted ==
  parsing.state = "Ok" =>
    \A j \in 1..Len(parsing.statements) :
       LET start == Len(SourceText(SubSeq(parsing.statements, 1, j - 1)))
       IN  StartsWith(parsing.statements[j].text, "import ") =>
             ((\E k \in 1..Len(parsing.output) :
                  /\ parsing.output[k].start = start
                  /\ parsing.output[k].kind = "Import")
              <=> IsSome(parsing.statements[j].import))

\* C19: parse_many ends with Ok on every input: the loop runs at most once
\* for every character of the input and once more; each iteration either
\* consumes a match or drops exactly the first character, and the iteration
\* on empty contents returns Ok with the output gathered.
C19_TerminatesOk ==
  /\ [](/\ parsing.state \in {"scanning", "Ok"}
        /\ parsing.iterations <= Len(parsing.source) + 1
        /\ parsing.state = "Ok" => parsing.contents = "")
  /\ [][parsing.state = "scanning" =>
          \/ /\ IsSome(AllPossibleImportTypes(parsing.contents))
             /\ Len(parsing'.contents) < Len(parsing.contents)
             /\ Len(parsing'.output) = Len(parsing.output) + 1
             /\ parsing'.state = "scanning"
          \/ /\ parsing.contents /= ""
             /\ parsing'.contents = Drop(parsing.contents, 1)
             /\ parsing'.output = parsing.output
             /\ parsing'.state = "scanning"
          \/ /\ parsing.contents = ""
             /\ parsing'.state = "Ok"
             /\ parsing'.output = parsing.output]_vars

\* parse_many has returned on a source with an unterminated require call
\* followed by an import it found.
C19_Witness ==
  /\ parsing.state = "Ok"
  /\ Len(parsing.statements) = 2
  /\ parsing.statements[1].text = "require('u"
  /\ Len(parsing.output) = 1

\* C20: what get_entrypoint_analysis hands out is absent or a graph on which
\* no augmentation is partly applied: every node it serialized has been
\* written by the same augmentations.
C20_NoPartialAugmentation ==
  (host.state /= "idle" /\ host.get = "done" /\ IsSome(host.handle)) =>
    \A i, j \in 1..Len(host.serialized) : host.serialized[i] = host.serialized[j]

\* C21: ingestion that stops at a sub-report lacking its modules or its
\* chunks has returned an error: the process is not aborted and no report
\* is returned.
C21_MissingArraysReturnError ==
  (/\ ingestion.state \in {"Ok", "Err", "panicked"}
   /\ IsSome(ingestion.document)
   /\ ingestion.queue = <<>>
   /\ ingestion.webpack_reports /= <<>>
   /\ \/ ~IsSome(ingestion.webpack_reports[1].modules)
      \/ ~IsSome(ingestion.webpack_reports[1].chunks))
    => ingestion.state = "Err"

\* The group instances for the directory of the k-th group.
Instances(k) ==
  {j \in Indices(analysis_groups) :
     At(analysis_groups, j).resolver_relative_path
       = At(analysis_groups, k).resolver_relative_path}

\* The chunks assigned to the file nodes of the k-th group's inclusions.
InclusionChunks(k) ==
  {At(all_nodes, n).chunk : n \in {m \in Range(At(analysis_groups, k).inclusions) :
                                     IsSome(At(all_nodes, m).chunk)}}

\* C22: after augment_with_webpack_report, a second call included, the
\* group instances of every directory carry pairwise distinct chunks, and
\* these are the chunks of the file nodes in the group's inclusions (one
\* instance without a chunk when no included node has one).
C22_OneInstancePerChunk ==
  (pc = "ready" /\ augment_calls > 0) =>
    \A k \in Indices(analysis_groups) :
       /\ \A i \in Instances(k) : \A j \in Instances(k) :
             i /= j => At(analysis_groups, i).chunk /= At(analysis_groups, j).chunk
       /\ {At(analysis_groups, j).chunk : j \in Instances(k)}
            = IF InclusionChunks(k) = {} THEN {None} ELSE InclusionChunks(k)

\* A step is a call of augment_with_webpack_report that returns.
AugmentReturns == augment_calls' = augment_calls + 1

\* The relevant chunk set R of the call that returns in this step.
RelevantSet ==
  LET input == Unwrap(augment_input')
      chunk_e == At(input.webpack_report.chunk_mapping[At(all_nodes, 0).full_path],
                    input.entrypoint_chunk_preference)
  IN  {chunk_e.id} \cup Range(chunk_e.children) \cup Range(chunk_e.siblings)

\* C24: a file node without a chunk before the call ends with the first
\* chunk, in report order, of its chunk list whose id is in R; it ends
\* tree-shaken and without a chunk when the report does not list it or none
\* of its chunks is in R.  No node is assigned a chunk outside R.
C24_FirstRelevantChunk ==
  [][AugmentReturns =>
       \A n \in Indices(all_nodes) :
          ~IsSome(At(all_nodes, n).chunk) =>
            LET mapping == Unwrap(augment_input').webpack_report.chunk_mapping
                path == At(all_nodes, n).full_path
                list == IF path \in DOMAIN mapping THEN mapping[path] ELSE <<>>
                hits == {k \in 1..Len(list) : list[k].id \in RelevantSet}
                after == At(all_nodes', n)
            IN  IF hits = {}
                THEN after.tree_shaken /\ after.chunk = None
                ELSE /\ after.chunk
                          = Some(list[CHOOSE k \in hits : \A j \in hits : k <= j].id)
                     /\ Unwrap(after.chunk) \in RelevantSet
                     /\ after.tree_shaken = At(all_nodes, n).tree_shaken]_vars

\* C24 witness: an augmented node whose chunk list starts with a chunk
\* outside R and goes on with one inside, which it was given.
C24_Witness ==
  /\ pc = "ready"
  /\ IsSome(augment_input)
  /\ \E n \in Indices(all_nodes) :
        LET mapping == Unwrap(augment_input).webpack_report.chunk_mapping
            path == At(all_nodes, n).full_path
        IN  /\ path \in DOMAIN mapping
            /\ Len(mapping[path]) = 2
            /\ mapping[path][1].id \notin DOMAIN chunks
            /\ At(all_nodes, n).chunk = Some(mapping[path][2].id)
  /\ \E n \in Indices(all_nodes) :
        At(all_nodes, n).tree_shaken /\ ~IsSome(At(all_nodes, n).chunk)

\* C25: a file node's identifier carries the "?c=<id>" suffix at most once,
\* for the chunk the node has, and a chunk once set never changes: neither
\* the visits through several ancestor groups nor a later call append again.
C25_SuffixOnce ==
  /\ [](\A n \in Indices(all_nodes) :
          At(all_nodes, n).identifier.suffix
            = IF IsSome(At(all_nodes, n).chunk)
              THEN <<Unwrap(At(all_nodes, n).chunk)>> ELSE <<>>)
  /\ [][AugmentReturns =>
          \A n \in Indices(all_nodes) :
             IsSome(At(all_nodes, n).chunk) =>
               /\ At(all_nodes', n).chunk = At(all_nodes, n).chunk
               /\ At(all_nodes', n).identifier = At(all_nodes, n).identifier]_vars

\* C25 witness: after a second augmentation with another report, a node in
\* three groups' inclusions has the chunk of the first call, where the
\* second report would have given it a different one.
C25_Witness ==
  /\ pc = "ready"
  /\ augment_calls = 2
  /\ \E n \in Indices(all_nodes) :
        LET mapping == Unwrap(augment_input).webpack_report.chunk_mapping
            path == At(all_nodes, n).full_path
        IN  /\ IsSome(At(all_nodes, n).chunk)
            /\ Len(At(all_nodes, n).identifier.suffix) = 1
            /\ Cardinality({k \in Indices(analysis_groups) :
                              n \in Range(At(analysis_groups, k).inclusions)}) >= 3
            /\ path \in DOMAIN mapping
            /\ mapping[path][1].id \in DOMAIN chunks
            /\ mapping[path][1].id /= Unwrap(At(all_nodes, n).chunk)

\* The fields of a node or group that augmentation leaves alone.
Untouched(node) ==
  [node EXCEPT !.chunk = None, !.tree_shaken = FALSE, !.identifier = None]

\* C26: augment_with_webpack_report adds and removes no file node and
\* deletes no group; nodes change in chunk, tree_shaken and identifier only,
\* groups in chunk only, and the groups appended are clones of groups
\* there, sharing inclusions and immediate_children; node_map is unchanged.
C26_AugmentFrame ==
  [][AugmentReturns =>
       /\ Len(all_nodes') = Len(all_nodes)
       /\ node_map' = node_map
       /\ \A n \in Indices(all_nodes) :
             Untouched(At(all_nodes', n)) = Untouched(At(all_nodes, n))
       /\ Len(analysis_groups') >= Len(analysis_groups)
       /\ \A k \in Indices(analysis_groups) :
             [At(analysis_groups', k) EXCEPT !.chunk = None]
               = [At(analysis_groups, k) EXCEPT !.chunk = None]
       /\ \A k \in Indices(analysis_groups') \ Indices(analysis_groups) :
             \E j \in Indices(analysis_groups) :
                [At(analysis_groups', k) EXCEPT !.chunk = None]
                  = [At(analysis_groups, j) EXCEPT !.chunk = None]]_vars

\* C26 witness: an augmentation has appended a clone of a group with its
\* inclusions, and given a node a chunk.
C26_Witness ==
  /\ pc = "ready"
  /\ augment_calls > 0
  /\ \E n \in Indices(all_nodes) : IsSome(At(all_nodes, n).chunk)
  /\ \E k \in Indices(analysis_groups) : \E j \in Indices(analysis_groups) :
        /\ j < k
        /\ At(analysis_groups, k).chunk /= At(analysis_groups, j).chunk
        /\ At(analysis_groups, k).inclusions = At(analysis_groups, j).inclusions
        /\ Len(At(analysis_groups, k).inclusions) >= 2
        /\ At(analysis_groups, k).resolver_relative_path
             = At(analysis_groups, j).resolver_relative_path

\* C23: a specifier resolved to a module by file resolution names the
\* module's file up to an appended extension: the file's name is the
\* specifier's last component followed by "." and a configured extension
\* (or the file is the index file of the directory the specifier names).
\* An extension the specifier already has is never replaced.
C23_ExtensionAppended ==
  (/\ resolution.state = "returned"
   /\ Unwrap(resolution.dependency).asset.tag = "Module")
    => LET file == Unwrap(resolution.dependency).asset.target
           specifier == resolution.unresolved.path
           name == specifier[Len(specifier)]
       IN  \/ \E k \in 1..Len(resolution.resolver.extensions) :
                 file[Len(file)] = name \o "." \o resolution.resolver.extensions[k]
           \/ /\ file[Len(file) - 1] = name
              /\ \E k \in 1..Len(resolution.resolver.extensions) :
                    file[Len(file)] = "index." \o resolution.resolver.extensions[k]

\* C27: a popped node whose full_path is not a key of the cache is skipped
\* and population goes on: nothing but the queue changes, and in the
\* Analysis returned the node is in all_nodes and node_map with its incoming
\* edges and its groups, its outgoing set empty.
C27_MissingSkipped ==
  /\ [][(/\ pc = "populate"
         /\ queue /= <<>>
         /\ At(all_nodes, queue[Len(queue)]).full_path \notin DOMAIN cache)
          => /\ queue' = Pop(queue)
             /\ pc' = "populate"
             /\ all_nodes' = all_nodes
             /\ node_map' = node_map
             /\ analysis_groups' = analysis_groups]_vars
  /\ [](pc = "ready" =>
          \A n \in Indices(all_nodes) :
             At(all_nodes, n).full_path \notin DOMAIN cache =>
               /\ At(all_nodes, n).outgoing = {}
               /\ At(all_nodes, n).full_path \in DOMAIN node_map
               /\ node_map[At(all_nodes, n).full_path] = n
               /\ n /= 0 => At(all_nodes, n).incoming /= {}
               /\ \A A \in Ancestors(At(all_nodes, n).resolver_relative_path) :
                     \E k \in Indices(analysis_groups) :
                        /\ At(analysis_groups, k).resolver_relative_path = A
                        /\ n \in Range(At(analysis_groups, k).inclusions))

\* C27 witness: an Analysis with a node that is not in the cache, and a
\* node queued before it by the same module, hence popped after it, that
\* has got its outgoing edges.
C27_Witness ==
  /\ pc = "ready"
  /\ \E m \in Indices(all_nodes) : \E n \in Indices(all_nodes) :
        /\ At(all_nodes, m).full_path \notin DOMAIN cache
        /\ 0 < n
        /\ n < m
        /\ At(all_nodes, m).incoming = At(all_nodes, n).incoming
        /\ At(all_nodes, n).outgoing /= {}

\* The locations the cached module at a location depends on.
LocatedDependencies(l) ==
  {cache[l].dependencies[k].asset.target :
     k \in {i \in 1..Len(cache[l].dependencies) :
              cache[l].dependencies[i].asset.tag /= "Unresolved"}}

\* The locations reachable from a set of locations through the dependencies
\* of cached modules.
RECURSIVE Reachable(_)
Reachable(locations) ==
  LET next == locations \cup
                UNION {LocatedDependencies(l) : l \in locations \cap DOMAIN cache}
  IN  IF next = locations THEN locations ELSE Reachable(next)

\* C28: population terminates: the queue only loses its last entry or gains
\* the index of a node created in the same step, so no node is queued twice
\* and a queued node has not been processed; create_from_cache returns,
\* with the queue empty, every cached node processed (its outgoing edges
\* are its module's dependencies) and every location reachable from the
\* entry through cached dependencies in node_map.
C28_PopulationTerminates ==
  /\ [][queue' /= queue =>
          \/ queue' = Pop(queue)
          \/ /\ queue' = Append(queue, Len(all_nodes))
             /\ Len(all_nodes') = Len(all_nodes) + 1]_vars
  /\ [](\A i \in 1..Len(queue) :
          /\ \A j \in 1..Len(queue) : queue[i] = queue[j] => i = j
          /\ At(all_nodes, queue[i]).outgoing = {})
  /\ [](pc = "ready" =>
          /\ queue = <<>>
          /\ Reachable({entry}) \subseteq DOMAIN node_map
          /\ \A n \in Indices(all_nodes) :
                At(all_nodes, n).full_path \in DOMAIN cache =>
                  /\ LocatedDependencies(At(all_nodes, n).full_path)
                       \subseteq DOMAIN node_map
                  /\ At(all_nodes, n).outgoing
                       = {node_map[l] :
                            l \in LocatedDependencies(At(all_nodes, n).full_path)})
  /\ <>(pc = "ready")

\* C28 witness: an Analysis built from a cyclic cache, the entry imported by
\* a module it reaches, with three nodes.
C28_Witness ==
  /\ pc = "ready"
  /\ Len(all_nodes) >= 3
  /\ At(all_nodes, 0).incoming /= {}
  /\ \E n \in Indices(all_nodes) :
        n /= 0 /\ 0 \in At(all_nodes, n).outgoing /\ n \notin At(all_nodes, 0).outgoing

\* The running call is at a NodePackage dependency whose target file is not
\* a cache key, and the package descriptor can be processed.
AtNewPackage ==
  /\ result = "running"
  /\ stack /= <<>>
  /\ stack[Len(stack)].index <= Len(stack[Len(stack)].module.dependencies)
  /\ LET dependency == stack[Len(stack)].module.dependencies[stack[Len(stack)].index]
     IN  /\ dependency.asset.tag = "NodePackage"
         /\ dependency.asset.target \notin DOMAIN cache
         /\ Unwrap(dependency.asset.package_directory) \notin fs.unreadable

\* C29: at a NodePackage dependency whose target_file is not a cache key,
\* the NodeModule built from the descriptor is stored under target_file and,
\* package_directory being different, under package_directory too; the two
\* keys map to equal Modules, no other key changes, and one call on the
\* Module is started.
C29_PackageCachedTwice ==
  [][AtNewPackage =>
       LET dependency == stack[Len(stack)].module.dependencies[stack[Len(stack)].index]
           target_file == dependency.asset.target
           package_directory == Unwrap(dependency.asset.package_directory)
       IN  /\ DOMAIN cache' = DOMAIN cache \cup {target_file, package_directory}
           /\ cache'[target_file].kind = "NodeModule"
           /\ cache'[target_file].location = fs.packages[package_directory].main
           /\ cache'[package_directory] = cache'[target_file]
           /\ \A l \in DOMAIN cache \ {package_directory} : cache'[l] = cache[l]
           /\ Len(stack') = Len(stack) + 1
           /\ stack'[Len(stack')] = [module |-> cache'[target_file], index |-> 1]
           /\ stack'[Len(stack)].index = stack[Len(stack)].index + 1]_vars

\* C29 witness: a build has returned Ok with the package cached under its
\* descriptor and under a file of the package imported by its path.
C29_Witness ==
  /\ result = "Ok"
  /\ PackageJson \in DOMAIN cache
  /\ PackageFile \in DOMAIN cache
  /\ cache[PackageFile] = cache[PackageJson]
  /\ cache[PackageFile].kind = "NodeModule"
  /\ PackageJson /= PackageFile

\* C30: without recursively_resolve_node_modules the NodeModule of a
\* descriptor has no dependencies; with it, the dependencies are the
\* resolutions of the keys of `dependencies`, one for each, the path after
\* "file:" standing for the key whose value starts with "file:".
C30_DescriptorDependencies ==
  (resolution.state = "Ok" /\ IsSome(resolution.module)) =>
    LET dependencies == Unwrap(resolution.module).dependencies
    IN  IF ~resolution.resolver.recursively_resolve_node_modules
        THEN dependencies = <<>>
        ELSE /\ Len(dependencies) = Len(resolution.dependencies)
             /\ \A k \in 1..Len(dependencies) :
                   LET value == resolution.dependencies[k].value
                       specifier ==
                         IF IsSome(value) /\ SubSeq(Unwrap(value), 1, 5) = "file:"
                         THEN SubSeq(Unwrap(value), 6, Len(Unwrap(value)))
                         ELSE resolution.dependencies[k].key
                   IN  dependencies[k]
                         = ResolveAsset(resolution.disk, resolution.resolver,
                                        resolution.location,
                                        [kind |-> "NodeDependency",
                                         path |-> Components(specifier)]).dependency

\* The modules listed at the top of the sub-reports of the document.
TopLevelModules ==
  IF ~IsSome(ingestion.document) THEN {}
  ELSE LET raw_reports == Unwrap(ingestion.document)
           reports == IF IsSome(raw_reports.children)
                      THEN Unwrap(raw_reports.children) ELSE <<raw_reports>>
       IN  UNION {Range(Unwrap(reports[k].modules)) :
                    k \in {i \in 1..Len(reports) : IsSome(reports[i].modules)}}

\* The modules nested in a module, at any depth.
RECURSIVE Nested(_)
Nested(module) ==
  IF ~IsSome(module.modules) THEN {}
  ELSE UNION {{child} \cup Nested(child) : child \in Range(Unwrap(module.modules))}

\* A top-level module, and the modules nested in it with its chunks in
\* place of theirs.
Inherited(module) ==
  {module} \cup {[child EXCEPT !.chunks = module.chunks] : child \in Nested(module)}

\* C31: whenever report ingestion records chunks, the module it took from
\* the queue is a leaf, and it is a top-level module or a module nested at
\* any depth in one, and the chunks recorded at its location are those of
\* that top-level module, whatever chunks the leaf or a composite module
\* between them declares; taking a composite module records nothing.
C31_OutermostChunks ==
  [][(ingestion.state = "modules" /\ ingestion'.output_map /= ingestion.output_map) =>
       LET module == ingestion.queue[Len(ingestion.queue)]
           location == ModuleLocation(ingestion.files, module.name)
       IN  /\ ~IsSome(module.modules)
           /\ IsSome(location)
           /\ \E outermost \in TopLevelModules :
                 /\ [module EXCEPT !.chunks = outermost.chunks] \in Inherited(outermost)
                 /\ ingestion'.output_map
                      = AppendChunks(ingestion.output_map, Unwrap(location),
                          [k \in 1..Len(outermost.chunks) |->
                             ingestion.chunk_map[outermost.chunks[k]]])]_vars

\* A report whose only module holds d.js two composite modules deep is
\* ingested: d.js declares chunk 1 and is recorded with chunk 2.
C31_Witness ==
  /\ ingestion.state = "Ok"
  /\ IsSome(ingestion.document)
  /\ TopLevelModules =
       {RawModule("./a/e.js + 2 modules", <<2>>,
          Some(<<RawModule("./a/b/d.js + 1 modules", <<1>>,
                   Some(<<RawModule("./a/b/d.js", <<1>>, None)>>))>>))}
  /\ DOMAIN ingestion.output_map = {FileD}
  /\ ingestion.output_map[FileD] = <<ChunkTable[2]>>

\* The sequences of a sequence, one after the other.
RECURSIVE Concat(_)
Concat(lists) ==
  IF lists = <<>> THEN <<>> ELSE lists[1] \o Concat(Tail(lists))

\* The leaf modules of a module that are not left out, each with the chunks
\* of the top-level module.
RECURSIVE LeavesOf(_)
LeavesOf(module) ==
  IF Ignored(module.name) THEN <<>>
  ELSE IF ~IsSome(module.modules) THEN <<module>>
  ELSE Concat([k \in 1..Len(Unwrap(module.modules)) |->
                 LeavesOf([Unwrap(module.modules)[k] EXCEPT !.chunks = module.chunks])])

\* The leaf modules of all the sub-reports of the document.
DocumentLeaves ==
  LET raw_reports == Unwrap(ingestion.document)
      reports == IF IsSome(raw_reports.children)
                 THEN Unwrap(raw_reports.children) ELSE <<raw_reports>>
  IN  Concat([r \in 1..Len(reports) |->
                Concat([k \in 1..Len(Unwrap(reports[r].modules)) |->
                          LeavesOf(Unwrap(reports[r].modules)[k])])])

\* C32: in the report returned by an ingestion, a location is a key of
\* chunk_mapping exactly when a leaf module that is not left out is located
\* there, and its entry holds, as many times as they are listed, the chunks
\* chunk_id_map gives for the chunk ids of these leaves over all sub-reports
\* and nothing else.
C32_ChunkMappingOfLeaves ==
  ingestion.state = "Ok" =>
    \A location \in ingestion.files \cup DOMAIN ingestion.output_map :
      LET leaves == DocumentLeaves
          here == {k \in 1..Len(leaves) :
                     ModuleLocation(ingestion.files, leaves[k].name) = Some(location)}
          ids == Concat([k \in 1..Len(leaves) |->
                           IF k \in here THEN leaves[k].chunks ELSE <<>>])
      IN  /\ location \in DOMAIN ingestion.output_map <=> here /= {}
          /\ here /= {} =>
                /\ Len(ingestion.output_map[location]) = Len(ids)
                /\ \A chunk \in Range(ingestion.output_map[location]) \cup
                                 {ingestion.chunk_map[ids[k]] : k \in 1..Len(ids)} :
                      Cardinality({k \in 1..Len(ids) :
                                     ingestion.chunk_map[ids[k]] = chunk})
                        = Cardinality({k \in 1..Len(ids) :
                                         ingestion.output_map[location][k] = chunk})

\* A thread holds a lock.
Holds(thread, name) ==
  host.locks[name].writer = thread \/ thread \in host.locks[name].readers

\* A thread is at a read or a write of a lock that it cannot be given as
\* the locks stand.
Waits(thread) ==
  /\ host.at[thread] <= Len(host.command[thread])
  /\ LET operation == host.command[thread][host.at[thread]]
         lock == host.locks[operation.lock]
     IN  \/ operation.op = "write" /\ (lock.writer /= 0 \/ lock.readers /= {})
         \/ operation.op = "read" /\ (lock.writer /= 0 \/ lock.waiting /= {})

\* C33: while a host command is running, one of the running commands is not
\* waiting for a lock; no thread asks for the application-state lock while it
\* holds the dependency-analysis lock, or for a lock it holds; and every
\* command returns.
C33_NoDeadlock ==
  /\ [](\A thread \in Threads :
          host.at[thread] <= Len(host.command[thread]) =>
            /\ \E other \in Threads :
                 host.at[other] <= Len(host.command[other]) /\ ~Waits(other)
            /\ LET operation == host.command[thread][host.at[thread]]
               IN  operation.op \in {"read", "write"} =>
                     /\ ~Holds(thread, operation.lock)
                     /\ operation.lock = "application_state" =>
                          ~Holds(thread, "dependency_analysis"))
  /\ <>(\A thread \in Threads : host.at[thread] > Len(host.command[thread]))

\* create_entrypoint_analysis waits for the write lock of the analysis with
\* the application state read-locked, create_webpack_statstics holds that
\* write lock, and create_root_tree waits to write the application state.
C33_Witness ==
  /\ host.state = "locks"
  /\ \E create, webpack, tree \in Threads :
       /\ host.command[create] = CreateEntrypointAnalysis
       /\ host.command[webpack] = CreateWebpackStatstics
       /\ host.command[tree] = CreateRootTree
       /\ create \in host.locks["application_state"].readers
       /\ create \in host.locks["dependency_analysis"].waiting
       /\ host.locks["dependency_analysis"].writer = webpack
       /\ tree \in host.locks["application_state"].waiting

\* C34: when no host command is running and both a webpack report and an
\* Analysis are stored, every node of the stored Analysis has been written
\* by an augmentation.
C34_StoredAnalysisAugmented ==
  (/\ host.state = "running"
   /\ host.create \in {"idle", "done"}
   /\ host.webpack \in {"idle", "done"}
   /\ host.get \in {"idle", "done"}
   /\ host.webpack_statistics
   /\ IsSome(host.analysis)) =>
     \A node \in 1..MaxNodes : host.graphs[Unwrap(host.analysis)][node] >= 1

\* C35: no file node of an Analysis is both tree-shaken and assigned a
\* chunk, however many times the Analysis has been augmented.
C35_ShakenHasNoChunk ==
  \A n \in Indices(all_nodes) :
     ~(At(all_nodes, n).tree_shaken /\ IsSome(At(all_nodes, n).chunk))

\* C37: a call of augment_with_webpack_report that panics leaves the file
\* nodes, the groups and the chunks table as they were, and a call that
\* returns was given a report that lists the entry with a chunk at the
\* preferred index.
C37_PanicBeforeModification ==
  [][/\ (augment_result' = "panicked" /\ augment_result /= "panicked") =>
          /\ all_nodes' = all_nodes
          /\ analysis_groups' = analysis_groups
          /\ chunks' = chunks
     /\ AugmentReturns =>
          LET input == Unwrap(augment_input')
              full_path == At(all_nodes, 0).full_path
          IN  /\ full_path \in DOMAIN input.webpack_report.chunk_mapping
              /\ input.entrypoint_chunk_preference
                   < Len(input.webpack_report.chunk_mapping[full_path])]_vars

\* An analysis that has been augmented once, with file nodes in chunks and
\* a group cloned, on which a second call has panicked.
C37_Witness ==
  /\ pc = "ready"
  /\ augment_calls = 1
  /\ augment_result = "panicked"
  /\ \E n \in Indices(all_nodes) : IsSome(At(all_nodes, n).chunk)
  /\ Len(analysis_groups) > Cardinality(DOMAIN analysis_group_map)

\* C36: when build_dependency_cache has returned Ok, every key of the
\* cache holds a Module whose location is the key.
C36_KeyIsLocation ==
  result = "Ok" => \A L \in DOMAIN cache : cache[L].location = L

\* C38: a relative specifier whose extension is one of the resolver's and
\* which names a file next to the referring file resolves to the Module of
\* that file.
C38_ExactFileWins ==
  (/\ resolution.state = "returned"
   /\ resolution.unresolved.path[1] /= "/"
   /\ PathExtension(resolution.unresolved.path) \in Range(resolution.resolver.extensions)
   /\ Join(Pop(resolution.location), resolution.unresolved.path)
        \in resolution.disk.files)
    => Unwrap(resolution.dependency).asset
         = ModuleAsset(Join(Pop(resolution.location), resolution.unresolved.path))

\* The source files the entry reaches through the imports the files on disk
\* hold now.
RECURSIVE ImportedFrom(_)
ImportedFrom(files) ==
  LET next == files \cup UNION {{fs.sources[f][k].asset.target :
                                   k \in {i \in 1..Len(fs.sources[f]) :
                                            fs.sources[f][i].asset.tag = "Module"}} :
                                f \in files}
  IN  IF next = files THEN files ELSE ImportedFrom(next)

\* C39: when build_dependency_cache has returned Ok on a cache kept from an
\* earlier call, a source file having been edited in between, every source
\* file the entry reaches holds in the cache the imports of its current
\* source, and every module or package it imports is a cache key.
C39_CacheFollowsDisk ==
  (IsSome(first) /\ result = "Ok") =>
    \A L \in ImportedFrom({entry}) :
       /\ L \in DOMAIN cache
       /\ cache[L].dependencies = fs.sources[L]
       /\ \A k \in 1..Len(fs.sources[L]) :
             fs.sources[L][k].asset.tag \in {"Module", "NodePackage"}
               => fs.sources[L][k].asset.target \in DOMAIN cache

====
